---- MODULE Spec2Model ----
(***************************************************************************)
(* A model of the widget tree (src/src/widgets/tree.rs) and of the window  *)
(* input dispatch (src/src/window.rs) of hydra/cushy.                      *)
(*                                                                         *)
(* The tree is the IndexMap of TreeNodes kept by Tree, in map order, with  *)
(* its next_key.  The window is GooeyWindow: its MouseState (location,     *)
(* hovered widget record, capture map) and the handlers of the platform    *)
(* events.  The arena behind ManagedWidget (crate::tree) and EventContext  *)
(* (crate::context) are not among the sources: the arena's links are the   *)
(* links of the Tree above, and its hover/focus registers and the context  *)
(* operations on them follow the specification's words.                    *)
(***************************************************************************)
EXTENDS Integers, Sequences, FiniteSets, TLC

\* ------------------------------------------------------------------ bounds

\* Keys the Tree may hand out in the tree-only specification (TreeSpec).
MaxKeys == 5
\* Widgets the window's tree may hold in the dispatch specification (Spec).
MaxWidgets == 2
\* Cursor positions on the (one-dimensional) surface: 1..NumPoints.
NumPoints == 2
\* Pointer devices and buttons per device.
NumDevices == 2
NumButtons == 2

\* Option::None, for keys, widgets, depths and positions.
None == -1

Points == 1..NumPoints
Devices == 1..NumDevices
Buttons == 1..NumButtons

\* Widgets the tree may hold in the hover specification (HoverSpec), where
\* siblings overlap.
MaxHoverWidgets == 3

\* Widget ids of the window's tree, cached rectangles <<lo, hi>> (origin lo),
\* and the absent rectangle.
WidgetIds == 0..(MaxHoverWidgets - 1)
Rects == {r \in Points \X Points : r[1] <= r[2]}
NoRect == <<>>

VARIABLES
    nodes,        \* Tree.nodes: the IndexMap, as the sequence of its entries
    next_key,     \* Tree.next_key
    op,           \* the last tree operation: <<name, argument, returned>>
    crashed,      \* a handler panicked (an unwrap or expect on None)
    hits,         \* the widgets whose type overrides Widget::hit_test
    layout,       \* the arena's cached rectangle of each widget
    hovered,      \* the arena's hovered register
    focused,      \* the arena's focused register
    location,     \* MouseState.location
    mwidget,      \* MouseState.widget: the widget the last hover pass found
    devices,      \* MouseState.devices: device -> (button -> handler)
    ev,           \* the last platform event handled
    calls,        \* the widget callbacks that event invoked, in order
    owner,        \* per (device, button): the widget that returned HANDLED
                  \* from a mouse_down, until a mouse-up for the pair arrives
    should_close, \* GooeyWindow.should_close
    issued,       \* the keys the Tree has returned since it was created
    inserted,     \* the keys the Tree has returned since it was created or
                  \* last cleared, in the order of the inserts
    mutex,        \* WidgetInstance.widget's Mutex: its holder and poison flag
    pc,           \* what each thread is doing with the WidgetInstance
    widget_state, \* the widget behind the Mutex
    handles,      \* the WidgetInstance and ManagedWidget handles alive
    created,      \* the number of WidgetInstance::new calls so far
    wrefs,        \* the WidgetRef values alive
    mret,         \* the last call of WidgetRef::mounted and what it returned
    once,         \* Lazy.once: the OnceLock
    derefs        \* what each thread is doing with the Lazy, and what its
                  \* last dereference gave it

treeVars == <<nodes, next_key, op, crashed, issued, inserted>>
winVars == <<hits, layout, hovered, focused, location, mwidget, devices,
             ev, calls, owner, should_close>>
refVars == <<wrefs, mret>>
lazyVars == <<once, derefs>>
libVars == <<mutex, pc, widget_state, handles, created, wrefs, mret, once,
             derefs>>
vars == <<nodes, next_key, op, crashed, hits, layout, hovered, focused,
          location, mwidget, devices, ev, calls, owner, should_close,
          issued, inserted, mutex, pc, widget_state, handles, created,
          wrefs, mret, once, derefs>>

\* Threads that share one WidgetInstance.
NumThreads == 3
Threads == 1..NumThreads

\* Handles (WidgetInstance or ManagedWidget values) alive at one time, heap
\* addresses an Arc allocation may get, and WidgetInstance::new calls.
NumSlots == 3
NumAddrs == 2
MaxCreated == 3
Slots == 1..NumSlots
Addrs == 1..NumAddrs

\* WidgetRef values alive at one time, and the widget instances they wrap.
NumRefs == 3
NumInstances == 2
Refs == 1..NumRefs
Instances == 1..NumInstances

\* A slot holding no WidgetRef.  Besides the WidgetRef (kind, instance, id),
\* a slot records the number of mounted() calls made on it (n, counted up
\* to 2), what the first of them returned (first) and whether one of them
\* pushed the child (pushed).
NoRef == [kind |-> "none", instance |-> None, id |-> None,
          n |-> 0, first |-> None, pushed |-> FALSE]

\* The value a thread has before its first dereference of the Lazy.
NoValue == 0

\* A slot holding no handle.
NoHandle == [id |-> None, tree |-> None,
             widget |-> [origin |-> 0, ptr |-> None, next_focus |-> None]]

\* A WidgetInstance nobody has locked yet and no handle made yet.
LibInit ==
    /\ mutex = [locked_by |-> None, poisoned |-> FALSE]
    /\ pc = [t \in Threads |-> "idle"]
    /\ widget_state = 0
    /\ handles = [i \in Slots |-> NoHandle]
    /\ created = 0
    /\ wrefs = [r \in Refs |-> NoRef]
    /\ mret = [ref |-> None, id |-> None, pushed |-> FALSE]
    /\ once = [value |-> NoValue, running |-> None, runs |-> 0, stored |-> 0]
    /\ derefs = [t \in Threads |-> [pc |-> "idle", seen |-> NoValue]]

\* --------------------------------------------------------- the Tree (tree.rs)

\* The keys of the map, in map order, and as a set.
KeySeq(ns) == [i \in 1..Len(ns) |-> ns[i].key]
Keys(ns) == {ns[i].key : i \in 1..Len(ns)}

\* IndexMap::contains_key.
contains_key(ns, k) == k \in Keys(ns)

\* IndexMap::get (on a key the map holds).
get(ns, k) == ns[CHOOSE i \in 1..Len(ns) : ns[i].key = k]

\* Sequence filter, keeping order.
RECURSIVE SelectKeys(_, _, _)
SelectKeys(ns, i, p) ==
    IF i > Len(ns) THEN <<>>
    ELSE IF ns[i].parent = p
         THEN <<ns[i].key>> \o SelectKeys(ns, i + 1, p)
         ELSE SelectKeys(ns, i + 1, p)

\* Tree::children_keys: the keys whose node names parent_key as its parent,
\* in map order.
children_keys(ns, parent_key) == SelectKeys(ns, 1, parent_key)

\* Tree::update_children_widgetlist: regenerate the parent's displayed
\* `children` list from children_keys; nothing for a root (no parent).
update_children_widgetlist(ns, parent_key) ==
    IF parent_key = None THEN ns
    ELSE [i \in 1..Len(ns) |->
            IF ns[i].key = parent_key
            THEN [ns[i] EXCEPT !.children = children_keys(ns, parent_key)]
            ELSE ns[i]]

\* A mutant of the insert: the key is returned but next_key does not advance.
insert_child_f_keeps_key(ns, nk, parent) ==
    LET depth == IF parent # None
                 THEN IF contains_key(ns, parent)
                      THEN get(ns, parent).depth + 1
                      ELSE None
                 ELSE 0
        child_node == [key |-> nk, parent |-> parent, depth |-> depth,
                       children |-> <<>>]
    IN  IF depth # None
        THEN [nodes |-> update_children_widgetlist(Append(ns, child_node), parent),
              next_key |-> nk, ret |-> nk, panic |-> FALSE]
        ELSE [nodes |-> ns, next_key |-> nk, ret |-> None, panic |-> FALSE]

\* A mutant of the insert: the key is generated before the parent is looked
\* up, so a failed insert consumes it.
insert_child_f_key_first(ns, nk, parent) ==
    LET depth == IF parent # None
                 THEN IF contains_key(ns, parent)
                      THEN get(ns, parent).depth + 1
                      ELSE None
                 ELSE 0
        child_node == [key |-> nk, parent |-> parent, depth |-> depth,
                       children |-> <<>>]
    IN  IF depth # None
        THEN [nodes |-> update_children_widgetlist(Append(ns, child_node), parent),
              next_key |-> nk + 1, ret |-> nk, panic |-> FALSE]
        ELSE [nodes |-> ns, next_key |-> nk + 1, ret |-> None, panic |-> FALSE]

\* Tree::insert_child_f: (depth, parent_key) decided first; a key is
\* generated only when the node is created.  Yields the new map, the new
\* next_key and the returned Option<TreeNodeKey>.
insert_child_f(ns, nk, parent) ==
    LET depth == IF parent # None
                 THEN IF contains_key(ns, parent)
                      THEN get(ns, parent).depth + 1
                      ELSE None
                 ELSE 0
        child_node == [key |-> nk, parent |-> parent, depth |-> depth,
                       children |-> <<>>]
    IN  IF depth # None
        THEN [nodes |-> update_children_widgetlist(Append(ns, child_node), parent),
              next_key |-> nk + 1, ret |-> nk, panic |-> FALSE]
        ELSE [nodes |-> ns, next_key |-> nk, ret |-> None, panic |-> FALSE]

\* A mutant of the sibling insert: a parentless sibling gets a parentless
\* sibling.
insert_after_f_beside_root(ns, nk, sibling) ==
    IF ~contains_key(ns, sibling)
    THEN [nodes |-> ns, next_key |-> nk, ret |-> None, panic |-> TRUE]
    ELSE LET node == get(ns, sibling)
             child_node == [key |-> nk, parent |-> node.parent,
                            depth |-> node.depth, children |-> <<>>]
         IN  [nodes |-> update_children_widgetlist(Append(ns, child_node),
                                                   node.parent),
              next_key |-> nk + 1, ret |-> nk, panic |-> FALSE]

\* A mutant of the sibling insert: the new node is given the depth of a
\* child of the sibling.
insert_after_f_deeper(ns, nk, sibling) ==
    IF ~contains_key(ns, sibling)
    THEN [nodes |-> ns, next_key |-> nk, ret |-> None, panic |-> TRUE]
    ELSE IF get(ns, sibling).parent = None
    THEN [nodes |-> ns, next_key |-> nk, ret |-> None, panic |-> FALSE]
    ELSE LET node == get(ns, sibling)
             child_node == [key |-> nk, parent |-> node.parent,
                            depth |-> node.depth + 1, children |-> <<>>]
         IN  [nodes |-> update_children_widgetlist(Append(ns, child_node),
                                                   node.parent),
              next_key |-> nk + 1, ret |-> nk, panic |-> FALSE]

\* A mutant of the sibling insert: the new node goes under the sibling.
insert_after_as_child(ns, nk, sibling) ==
    IF ~contains_key(ns, sibling)
    THEN [nodes |-> ns, next_key |-> nk, ret |-> None, panic |-> TRUE]
    ELSE IF get(ns, sibling).parent = None
    THEN [nodes |-> ns, next_key |-> nk, ret |-> None, panic |-> FALSE]
    ELSE LET node == get(ns, sibling)
             child_node == [key |-> nk, parent |-> sibling,
                            depth |-> node.depth + 1, children |-> <<>>]
         IN  [nodes |-> update_children_widgetlist(Append(ns, child_node),
                                                   sibling),
              next_key |-> nk + 1, ret |-> nk, panic |-> FALSE]

\* Tree::insert_after_f: the first statement unwraps get(sibling), which
\* panics on an absent sibling; a root sibling returns None.
insert_after_f(ns, nk, sibling) ==
    IF ~contains_key(ns, sibling)
    THEN [nodes |-> ns, next_key |-> nk, ret |-> None, panic |-> TRUE]
    ELSE IF get(ns, sibling).parent = None
    THEN [nodes |-> ns, next_key |-> nk, ret |-> None, panic |-> FALSE]
    ELSE LET node == get(ns, sibling)
             child_node == [key |-> nk, parent |-> node.parent,
                            depth |-> node.depth, children |-> <<>>]
         IN  [nodes |-> update_children_widgetlist(Append(ns, child_node),
                                                   node.parent),
              next_key |-> nk + 1, ret |-> nk, panic |-> FALSE]

\* A mutant of the removal from the map (IndexMap::swap_remove): the last
\* entry takes the place of the removed one.
swap_remove(ns, k) ==
    IF ~contains_key(ns, k) THEN ns
    ELSE LET i == CHOOSE j \in 1..Len(ns) : ns[j].key = k
         IN  [j \in 1..(Len(ns) - 1) |-> IF j = i THEN ns[Len(ns)] ELSE ns[j]]

\* IndexMap::shift_remove: drop the entry, keeping the order of the rest.
shift_remove(ns, k) == SelectSeq(ns, LAMBDA n : n.key # k)

\* A mutant of the removal loop: the node goes, its children are not pushed.
RECURSIVE RemoveLoopNoCascade(_, _)
RemoveLoopNoCascade(ns, to_remove) ==
    IF to_remove = <<>> THEN ns
    ELSE RemoveLoopNoCascade(shift_remove(ns, to_remove[Len(to_remove)]),
                             SubSeq(to_remove, 1, Len(to_remove) - 1))

\* The loop of Tree::remove_node: pop a key, shift_remove it and, when it was
\* present, push the keys of the nodes that name it as their parent.
RECURSIVE RemoveLoop(_, _)
RemoveLoop(ns, to_remove) ==
    IF to_remove = <<>> THEN ns
    ELSE LET current_key == to_remove[Len(to_remove)]
             rest == SubSeq(to_remove, 1, Len(to_remove) - 1)
             after == shift_remove(ns, current_key)
         IN  IF contains_key(ns, current_key)
             THEN RemoveLoop(after, rest \o children_keys(after, current_key))
             ELSE RemoveLoop(after, rest)

\* Tree::remove_node: nothing for an absent key.
remove_node(ns, node_key) ==
    IF ~contains_key(ns, node_key) THEN ns
    ELSE RemoveLoop(ns, <<node_key>>)

\* Tree::make_widget: the widget shown is that of the first node of the map
\* (a Space, here None, for an empty map).
make_widget(ns) == IF ns = <<>> THEN None ELSE ns[1].key

\* ------------------------------------------------- tree operations as steps

\* Tree::default, with the window not yet involved.
TreeInit ==
    /\ nodes = <<>>
    /\ next_key = 0
    /\ op = <<"new", None, None>>
    /\ crashed = FALSE
    /\ hits = {}
    /\ layout = [w \in WidgetIds |-> NoRect]
    /\ hovered = None
    /\ focused = None
    /\ location = None
    /\ mwidget = None
    /\ devices = [d \in Devices |-> [present |-> FALSE,
                                     buttons |-> [b \in Buttons |-> None]]]
    /\ ev = [kind |-> "none", d |-> None, b |-> None, held |-> None,
             handler |-> None, was |-> None,
             key |-> [pressed |-> FALSE, checked |-> FALSE], ret |-> ""]
    /\ calls = <<>>
    /\ owner = [d \in Devices |-> [b \in Buttons |-> None]]
    /\ should_close = FALSE
    /\ issued = {}
    /\ inserted = <<>>
    /\ LibInit

\* The record of the keys returned: an insert that returned a key adds it.
Returned(ret) ==
    /\ issued' = IF ret # None THEN issued \cup {ret} ELSE issued
    /\ inserted' = IF ret # None THEN Append(inserted, ret) ELSE inserted

\* Tree::insert_child, with any parent argument (None, present or absent).
InsertChild(limit) ==
    /\ ~crashed
    /\ next_key < limit
    /\ \E parent \in {None} \cup (0..(limit - 1)) :
         LET r == insert_child_f(nodes, next_key, parent)
         IN  /\ nodes' = r.nodes
             /\ next_key' = r.next_key
             /\ op' = <<"insert_child", parent, r.ret>>
             /\ crashed' = r.panic
             /\ Returned(r.ret)
    /\ UNCHANGED winVars
    /\ UNCHANGED libVars

\* Tree::insert_after, with any sibling argument.
InsertAfter(limit) ==
    /\ ~crashed
    /\ next_key < limit
    /\ \E sibling \in 0..(limit - 1) :
         LET r == insert_after_f(nodes, next_key, sibling)
         IN  /\ nodes' = r.nodes
             /\ next_key' = r.next_key
             /\ op' = <<"insert_after", sibling, r.ret>>
             /\ crashed' = r.panic
             /\ Returned(r.ret)
    /\ UNCHANGED winVars
    /\ UNCHANGED libVars

\* A mutant of the removal: the node is indexed (nodes[key]) before the
\* check, which panics on an absent key.
RemoveNodeIndexing(limit) ==
    /\ ~crashed
    /\ \E node_key \in 0..(limit - 1) :
         /\ nodes' = remove_node(nodes, node_key)
         /\ op' = <<"remove_node", node_key, None>>
         /\ crashed' = ~contains_key(nodes, node_key)
    /\ UNCHANGED <<next_key, issued, inserted>>
    /\ UNCHANGED winVars
    /\ UNCHANGED libVars

\* Tree::remove_node, with any key argument.
RemoveNode(limit) ==
    /\ ~crashed
    /\ \E node_key \in 0..(limit - 1) :
         /\ nodes' = remove_node(nodes, node_key)
         /\ op' = <<"remove_node", node_key, None>>
    /\ UNCHANGED <<next_key, crashed, issued, inserted>>
    /\ UNCHANGED winVars
    /\ UNCHANGED libVars

\* Tree::clear: all nodes go and the key restarts.
Clear ==
    /\ ~crashed
    /\ nodes' = <<>>
    /\ next_key' = 0
    /\ op' = <<"clear", None, None>>
    /\ inserted' = <<>>
    /\ UNCHANGED <<crashed, issued>>
    /\ UNCHANGED winVars
    /\ UNCHANGED libVars

TreeNext ==
    \/ InsertChild(MaxKeys)
    \/ InsertAfter(MaxKeys)
    \/ RemoveNode(MaxKeys)
    \/ Clear

\* The Tree on its own: any sequence of its public operations.
TreeSpec == TreeInit /\ [][TreeNext]_vars

\* ------------------------------------------------------- C1: tree removal

\* The parent recorded for key k (None for a root or an absent key).
ParentOf(ns, k) == IF contains_key(ns, k) THEN get(ns, k).parent ELSE None

\* k is id or has id on its chain of parents.
RECURSIVE UnderOrSelf(_, _, _)
UnderOrSelf(ns, k, id) ==
    IF k = id THEN TRUE
    ELSE IF ParentOf(ns, k) = None THEN FALSE
    ELSE UnderOrSelf(ns, ParentOf(ns, k), id)

Subtree(ns, id) == {k \in Keys(ns) : UnderOrSelf(ns, k, id)}

\* C1: remove_node(id) on a present id removes exactly id and its transitive
\* descendants; every other node stays, in its place in the map, with its
\* parent and depth unchanged.
C1_RemoveExactlySubtree ==
    [][(op'[1] = "remove_node" /\ contains_key(nodes, op'[2])) =>
        /\ Keys(nodes') = Keys(nodes) \ Subtree(nodes, op'[2])
        /\ \A k \in Keys(nodes') :
             /\ get(nodes', k).parent = get(nodes, k).parent
             /\ get(nodes', k).depth = get(nodes, k).depth
        /\ KeySeq(nodes') =
             KeySeq(SelectSeq(nodes, LAMBDA n : n.key \notin Subtree(nodes, op'[2])))
      ]_vars

\* The specification's example: root 0, 1 and 2 under it, 3 under 1, 4
\* under 2; remove(1) has left exactly {0, 2, 4}.
C1_Witness ==
    /\ op = <<"remove_node", 1, None>>
    /\ next_key = 5
    /\ Keys(nodes) = {0, 2, 4}
    /\ ParentOf(nodes, 2) = 0
    /\ ParentOf(nodes, 4) = 2

\* ---------------------------------------------- the arena and the context

HANDLED == "HANDLED"
IGNORED == "IGNORED"

\* One callback invocation: the callback, the widget, the device and button
\* it was given, the position it was given, what it returned, and the
\* focused register as the callback found it.
Call(cb, w, d, b, pos, res, foc) ==
    [cb |-> cb, w |-> w, d |-> d, b |-> b, pos |-> pos, res |-> res, foc |-> foc]

\* ManagedWidget::last_layout (EventContext::last_rendered_at): the cached
\* rectangle; absent for a widget never laid out or no longer in the tree.
last_layout(w) ==
    IF contains_key(nodes, w) /\ w \in WidgetIds THEN layout[w] ELSE NoRect

\* ManagedWidget::parent: the arena's parent link; absent for a root and for
\* a widget no longer in the tree.
parent(w) == ParentOf(nodes, w)

\* A mutant of the default: hit_test returns true for every widget.
hit_test_always(w) == TRUE

\* Widget::hit_test: false unless the widget's type overrides it.
hit_test(w) == w \in hits

\* ManagedWidget::primary_hover and ManagedWidget::focused: the widget is
\* the one the register names.
primary_hover(w) == hovered = w
widget_focused(w) == focused = w

\* The lifecycle notifications: a node pushed into the tree is told mounted,
\* and each node a removal takes out is told unmounted.
mounted_calls(w) ==
    IF w = None THEN <<>>
    ELSE <<Call("mounted", w, None, None, None, "", focused)>>
unmounted_calls(before, after) ==
    LET removed == SelectSeq(KeySeq(before), LAMBDA k : ~contains_key(after, k))
    IN  [i \in 1..Len(removed) |->
            Call("unmounted", removed[i], None, None, None, "", focused)]

\* Paint order under a node: the node, then each child's subtree in child
\* (insertion) order.
RECURSIVE PaintOrder(_, _)
PaintOrder(ns, ks) ==
    IF ks = <<>> THEN <<>>
    ELSE <<ks[1]>> \o PaintOrder(ns, children_keys(ns, ks[1]))
                   \o PaintOrder(ns, SubSeq(ks, 2, Len(ks)))

Reverse(s) == [i \in 1..Len(s) |-> s[Len(s) + 1 - i]]

\* Tree::widgets_at_point: front to back (children before ancestors,
\* later-inserted siblings before earlier ones), restricted to the widgets
\* whose cached rectangle contains the point.
widgets_at_point(p) ==
    SelectSeq(Reverse(PaintOrder(nodes, children_keys(nodes, None))),
              LAMBDA w : /\ last_layout(w) # NoRect
                         /\ last_layout(w)[1] <= p
                         /\ p <= last_layout(w)[2])

\* EventContext::clear_focus: the focused widget, if any, is blurred and the
\* register emptied.  Yields the callbacks.
clear_focus_calls(f) ==
    IF f = None THEN <<>>
    ELSE <<Call("blur", f, None, None, None, "", f)>>

\* EventContext::focus: the previous holder is blurred first, then the
\* widget takes the register and is told.
focus_calls(f, w) ==
    IF f = w THEN <<>>
    ELSE clear_focus_calls(f) \o <<Call("focus", w, None, None, None, "", w)>>

\* EventContext::clear_hover: the hovered widget, if any, is told unhover and
\* the register emptied.
clear_hover_calls(h) ==
    IF h = None THEN <<>>
    ELSE <<Call("unhover", h, None, None, None, "", focused)>>

\* EventContext::hover: a different previous holder is told unhover first;
\* the widget takes the register and is told hover at the position.
hover_calls(h, w, relative) ==
    (IF h # w THEN clear_hover_calls(h) ELSE <<>>)
        \o <<Call("hover", w, None, None, relative, "", focused)>>

\* ---------------------------------------------------- window.rs: dispatch

\* A mutant of the bubbling: the initial target is reported as the handler
\* whoever handled the event.
RECURSIVE BubbleReportsTarget(_, _)
BubbleReportsTarget(w, outcome) ==
    IF outcome[w] = "PANIC"
    THEN [invoked |-> <<>>, handler |-> None, panic |-> TRUE]
    ELSE IF outcome[w] = HANDLED
    THEN [invoked |-> <<w>>, handler |-> w, panic |-> FALSE]
    ELSE IF parent(w) = None
    THEN [invoked |-> <<w>>, handler |-> None, panic |-> FALSE]
    ELSE LET r == BubbleReportsTarget(parent(w), outcome)
         IN  [invoked |-> <<w>> \o r.invoked,
              handler |-> IF r.handler = None THEN None ELSE w,
              panic |-> r.panic]

\* A mutant of the bubbling: an ignored event is not retried on the parent.
BubbleStopsAtTarget(w, outcome) ==
    IF outcome[w] = "PANIC"
    THEN [invoked |-> <<>>, handler |-> None, panic |-> TRUE]
    ELSE [invoked |-> <<w>>,
          handler |-> IF outcome[w] = HANDLED THEN w ELSE None,
          panic |-> FALSE]

\* A mutant of the bubbling: a widget without a parent that ignored the
\* event is tried a second time.
RECURSIVE BubbleRetriesRoot(_, _)
BubbleRetriesRoot(w, outcome) ==
    IF outcome[w] = "PANIC"
    THEN [invoked |-> <<>>, handler |-> None, panic |-> TRUE]
    ELSE IF outcome[w] = HANDLED
    THEN [invoked |-> <<w>>, handler |-> w, panic |-> FALSE]
    ELSE IF parent(w) = None
    THEN [invoked |-> <<w, w>>, handler |-> None, panic |-> FALSE]
    ELSE LET r == BubbleRetriesRoot(parent(w), outcome)
         IN  [invoked |-> <<w>> \o r.invoked, handler |-> r.handler,
              panic |-> r.panic]

\* recursively_handle_event: each_widget is invoked on the context's widget;
\* HANDLED yields that widget; otherwise the same is done on the parent, and
\* without a parent the result is None.  outcome[w] is what each_widget does
\* on w: return HANDLED or IGNORED, or panic.  Yields the widgets on which
\* each_widget returned, in order, the handler, and whether it panicked.
RECURSIVE recursively_handle_event(_, _)
recursively_handle_event(w, outcome) ==
    IF outcome[w] = "PANIC"
    THEN [invoked |-> <<>>, handler |-> None, panic |-> TRUE]
    ELSE IF outcome[w] = HANDLED
    THEN [invoked |-> <<w>>, handler |-> w, panic |-> FALSE]
    ELSE IF parent(w) = None
    THEN [invoked |-> <<w>>, handler |-> None, panic |-> FALSE]
    ELSE LET r == recursively_handle_event(parent(w), outcome)
         IN  [invoked |-> <<w>> \o r.invoked, handler |-> r.handler,
              panic |-> r.panic]

\* The devices whose events the one-pointer specification delivers.
MainDevices == {1}

\* The widgets a bubbling from w may reach: w and its ancestors.
RECURSIVE Chain(_)
Chain(w) ==
    IF w = None THEN {}
    ELSE {w} \cup Chain(parent(w))

NoOp == <<"event", None, None>>
\* The last event: its kind, device and button, and what the handler saw or
\* computed: the widget owning (device, button) before a release (held), the
\* result of the bubbling of a press (handler), and the hovered register
\* before a cursor move (was).
\* For a frame, ret is what render returned to the platform ("true" to go
\* on, "false" to stop).
\* For a key event, key tells whether the key went down (pressed) and whether
\* the window went on to look at its own shortcuts (checked).
NoKey == [pressed |-> FALSE, checked |-> FALSE]
Event(kind, d, b, held, handler, was) ==
    [kind |-> kind, d |-> d, b |-> b, held |-> held, handler |-> handler,
     was |-> was, key |-> NoKey, ret |-> ""]
Other(kind) == Event(kind, None, None, None, None, None)

\* The mouse_down callbacks of one press, in order: each invoked widget is
\* given the position relative to its rectangle's origin and returns HANDLED
\* (the handler) or IGNORED; the widget `req`, when invoked, asks for focus
\* inside its callback.  Yields the callbacks and the focused register.
RECURSIVE MouseDownCalls(_, _, _, _, _, _, _)
MouseDownCalls(invoked, i, f, handler, req, d, b) ==
    IF i > Len(invoked) THEN [calls |-> <<>>, focused |-> f]
    ELSE LET w == invoked[i]
             down == Call("mouse_down", w, d, b, location - last_layout(w)[1],
                          IF w = handler THEN HANDLED ELSE IGNORED, f)
             asked == IF w = req THEN focus_calls(f, w) ELSE <<>>
             r == MouseDownCalls(invoked, i + 1, IF w = req THEN w ELSE f,
                                 handler, req, d, b)
         IN  [calls |-> <<down>> \o asked \o r.calls, focused |-> r.focused]

\* A mutant of the press: focus is left as it was.
press_keeps_focus == [calls |-> <<>>, focused |-> focused]

\* The first statement of a press: WidgetContext::clear_focus on the root's
\* context.  Yields the callbacks and the focused register.
press_clear_focus == [calls |-> clear_focus_calls(focused), focused |-> None]

\* A mutant of the recording: the device's other buttons are forgotten.
record_handler_alone(devs, d, b, handler) ==
    [devs EXCEPT ![d] = [present |-> TRUE,
                         buttons |-> [x \in Buttons |->
                                        IF x = b THEN handler ELSE None]]]

\* devices.entry(device_id).or_default().insert(button, handler).
record_handler(devs, d, b, handler) ==
    [devs EXCEPT ![d] = [present |-> TRUE,
                         buttons |-> [@.buttons EXCEPT ![b] = handler]]]

\* A mutant of the release: the button's entry stays.
remove_button_keeps(device_buttons, b) == device_buttons

\* A mutant of the release: every button of the device is let go.
remove_button_all(device_buttons, b) == [x \in Buttons |-> None]

\* device_buttons.remove(&button).
remove_button(device_buttons, b) == [device_buttons EXCEPT ![b] = None]

\* GooeyWindow::mouse_input, ElementState::Pressed: focus is cleared; with a
\* recorded location and a recorded hovered widget, mouse_down bubbles from
\* that widget (the closure expects each widget's rectangle), and a handler
\* is recorded under (device, button).
MousePressed(D, B) ==
    /\ ~crashed
    /\ \E d \in D, b \in B, h \in Chain(mwidget) \cup {None},
          req \in Chain(mwidget) \cup {None} :
         LET cleared == press_clear_focus.calls
             outcome == [w \in WidgetIds |->
                           IF last_layout(w) = NoRect THEN "PANIC"
                           ELSE IF w = h THEN HANDLED ELSE IGNORED]
         IN  IF location # None /\ mwidget # None
                THEN LET r == recursively_handle_event(mwidget, outcome)
                         m == MouseDownCalls(r.invoked, 1, press_clear_focus.focused,
                                             h, req, d, b)
                     IN  /\ ev' = Event("press", d, b, None, r.handler, None)
                         /\ calls' = cleared \o m.calls
                         /\ focused' = m.focused
                         /\ crashed' = r.panic
                         /\ devices' =
                              IF r.handler # None
                              THEN record_handler(devices, d, b, r.handler)
                              ELSE devices
                         /\ owner' =
                              IF \E i \in 1..Len(m.calls) :
                                    m.calls[i].cb = "mouse_down" /\ m.calls[i].res = HANDLED
                              THEN [owner EXCEPT ![d][b] =
                                      m.calls[CHOOSE i \in 1..Len(m.calls) :
                                                /\ m.calls[i].cb = "mouse_down"
                                                /\ m.calls[i].res = HANDLED].w]
                              ELSE owner
                ELSE /\ ev' = Event("press", d, b, None, None, None)
                     /\ calls' = cleared
                     /\ focused' = press_clear_focus.focused
                     /\ UNCHANGED <<crashed, devices, owner>>
    /\ op' = NoOp
    /\ UNCHANGED <<nodes, next_key, hits, layout, hovered, location, mwidget,
                   should_close, issued, inserted>>
    /\ UNCHANGED libVars

\* Option<Point<Px>> as mouse_up is given it: a position relative to the
\* widget's origin (which may be negative), or nothing.
Some(x) == [some |-> TRUE, at |-> x]
Absent == [some |-> FALSE, at |-> 0]

\* A mutant of the release: without a rectangle the handler is told nothing.
mouse_up_calls_needs_rect(handler, d, b) ==
    IF last_layout(handler) # NoRect /\ location # None
    THEN <<Call("mouse_up", handler, d, b,
                Some(location - last_layout(handler)[1]), "", focused)>>
    ELSE <<>>

\* The end of a release: the position is Some only when the handler's
\* rectangle and the location are both known, and mouse_up is called with it.
mouse_up_calls(handler, d, b) ==
    LET relative == IF last_layout(handler) # NoRect /\ location # None
                    THEN Some(location - last_layout(handler)[1])
                    ELSE Absent
    IN  <<Call("mouse_up", handler, d, b, relative, "", focused)>>

\* A mutant of the release: the device's entry stays when it is empty.
device_kept_after_release(left) == [present |-> TRUE, buttons |-> left]

\* if device_buttons.is_empty() { devices.remove(&device_id) }: the device's
\* entry stays only while a button is left in it.
device_after_release(left) ==
    [present |-> \E x \in Buttons : left[x] # None, buttons |-> left]

\* A mutant of the release: without an entry, the hovered widget stands in.
released_handler_or_hovered(d, b) ==
    IF devices[d].present /\ devices[d].buttons[b] # None
    THEN devices[d].buttons[b]
    ELSE mwidget

\* The two let-else of the release: the handler recorded under (device,
\* button); None stands for either early return.
released_handler(d, b) ==
    IF ~devices[d].present THEN None ELSE devices[d].buttons[b]

\* GooeyWindow::mouse_input, ElementState::Released: without an entry for
\* the device, or for the button, nothing happens; otherwise the entry goes
\* (and the device's, once empty) and the handler is told mouse_up, with a
\* position only when its rectangle and the location are both known.
MouseReleased(D, B) ==
    /\ ~crashed
    /\ \E d \in D, b \in B :
         /\ ev' = Event("release", d, b, owner[d][b], None, None)
         /\ owner' = [owner EXCEPT ![d][b] = None]
         /\ IF released_handler(d, b) = None
            THEN /\ calls' = <<>>
                 /\ UNCHANGED devices
            ELSE LET handler == released_handler(d, b)
                     left == remove_button(devices[d].buttons, b)
                 IN  /\ devices' = [devices EXCEPT ![d] = device_after_release(left)]
                     /\ calls' = mouse_up_calls(handler, d, b)
    /\ op' = NoOp
    /\ UNCHANGED <<nodes, next_key, crashed, hits, layout, hovered, focused,
                   location, mwidget, should_close, issued, inserted>>
    /\ UNCHANGED libVars

\* The orders in which a HashMap may yield the buttons in S.
Orders(S) == {o \in [1..Cardinality(S) -> S] :
                \A i, j \in 1..Cardinality(S) : i # j => o[i] # o[j]}

\* The drag loop of cursor_moved: each (button, handler) of the device, in
\* the map's order; the handler's rectangle is expected, then it is told
\* mouse_drag with the position relative to the rectangle's origin.
RECURSIVE DragLoop(_, _, _, _)
DragLoop(order, i, d, loc) ==
    IF i > Len(order) THEN [calls |-> <<>>, panic |-> FALSE]
    ELSE LET handler == devices[d].buttons[order[i]]
         IN  IF last_layout(handler) = NoRect
             THEN [calls |-> <<>>, panic |-> TRUE]
             ELSE LET r == DragLoop(order, i + 1, d, loc)
                  IN  [calls |-> <<Call("mouse_drag", handler, d, order[i],
                                        loc - last_layout(handler)[1], "", focused)>>
                                  \o r.calls,
                       panic |-> r.panic]

\* A mutant of the hover loop: the first candidate is hovered untested.
HoverLoopNoHitTest(cands, i, loc) ==
    IF i > Len(cands) THEN [calls |-> <<>>, found |-> None]
    ELSE [calls |-> hover_calls(hovered, cands[i], loc - last_layout(cands[i])[1]),
          found |-> cands[i]]

\* A mutant of the hover loop: the new widget is told hover and takes the
\* register while the previous holder is told nothing.
RECURSIVE HoverLoopOverwrites(_, _, _)
HoverLoopOverwrites(cands, i, loc) ==
    IF i > Len(cands) THEN [calls |-> <<>>, found |-> None]
    ELSE LET w == cands[i]
             relative == loc - last_layout(w)[1]
         IN  IF hit_test(w)
             THEN [calls |-> <<Call("hit_test", w, None, None, relative, "true", focused),
                               Call("hover", w, None, None, relative, "", focused)>>,
                   found |-> w]
             ELSE LET r == HoverLoopOverwrites(cands, i + 1, loc)
                  IN  [calls |-> <<Call("hit_test", w, None, None, relative, "false", focused)>>
                                    \o r.calls,
                       found |-> r.found]

\* A mutant of the hover loop: no break, every candidate is hit-tested and
\* each one that passes is hovered; the last one stays recorded.
RECURSIVE HoverLoopNoBreak(_, _, _)
HoverLoopNoBreak(cands, i, loc) ==
    IF i > Len(cands) THEN [calls |-> <<>>, found |-> None]
    ELSE LET w == cands[i]
             relative == loc - last_layout(w)[1]
             r == HoverLoopNoBreak(cands, i + 1, loc)
         IN  IF hit_test(w)
             THEN [calls |-> <<Call("hit_test", w, None, None, relative, "true", focused),
                               Call("hover", w, None, None, relative, "", focused)>>
                               \o r.calls,
                   found |-> IF r.found # None THEN r.found ELSE w]
             ELSE [calls |-> <<Call("hit_test", w, None, None, relative, "false", focused)>>
                               \o r.calls,
                   found |-> r.found]

\* The hover loop of cursor_moved: the candidates in order; the first whose
\* hit_test returns true is hovered and ends the loop.
RECURSIVE HoverLoop(_, _, _)
HoverLoop(cands, i, loc) ==
    IF i > Len(cands) THEN [calls |-> <<>>, found |-> None]
    ELSE LET w == cands[i]
             relative == loc - last_layout(w)[1]
         IN  IF hit_test(w)
             THEN [calls |-> <<Call("hit_test", w, None, None, relative, "true", focused)>>
                               \o hover_calls(hovered, w, relative),
                   found |-> w]
             ELSE LET r == HoverLoop(cands, i + 1, loc)
                  IN  [calls |-> <<Call("hit_test", w, None, None, relative, "false", focused)>>
                                    \o r.calls,
                       found |-> r.found]

\* A mutant of the drag test: every move runs the hover pass.
has_capture_never(d) == FALSE

\* A mutant of the drag test: a capture of any device counts.
has_capture_any(d) == \E e \in Devices : devices[e].present

\* self.mouse_state.devices.get(&device_id) is Some: the moving device has a
\* capture entry.
has_capture(d) == devices[d].present

\* GooeyWindow::cursor_moved: the location is recorded; a device with a
\* capture entry drags, any other runs the hover pass, which forgets the
\* recorded widget, records the first candidate that passes hit_test, and
\* clears hover when there is none.
CursorMoved(D) ==
    /\ ~crashed
    /\ \E d \in D, p \in Points :
         /\ ev' = Event("move", d, None, None, None, hovered)
         /\ location' = p
         /\ IF has_capture(d)
            THEN \E order \in Orders({b \in Buttons : devices[d].buttons[b] # None}) :
                   LET r == DragLoop(order, 1, d, p)
                   IN  /\ calls' = r.calls
                       /\ crashed' = r.panic
                       /\ UNCHANGED <<mwidget, hovered>>
            ELSE LET r == HoverLoop(widgets_at_point(p), 1, p)
                 IN  /\ mwidget' = r.found
                     /\ hovered' = r.found
                     /\ calls' = IF r.found = None
                                 THEN r.calls \o clear_hover_calls(hovered)
                                 ELSE r.calls
                     /\ UNCHANGED crashed
    /\ op' = NoOp
    /\ UNCHANGED <<nodes, next_key, hits, layout, focused, devices, owner,
                   should_close, issued, inserted>>
    /\ UNCHANGED libVars

\* A mutant of cursor_left: the record is taken, hover is left as it is.
CursorLeftKeepsHover(D) ==
    /\ ~crashed
    /\ \E d \in D :
         /\ ev' = Event("leave", d, None, None, None, hovered)
         /\ mwidget' = None
         /\ calls' = <<>>
    /\ op' = NoOp
    /\ UNCHANGED <<nodes, next_key, crashed, hits, layout, hovered, focused,
                   location, devices, owner, should_close, issued, inserted>>
    /\ UNCHANGED libVars

\* GooeyWindow::cursor_left: only when a hovered widget is recorded, the
\* record is taken and hover cleared.
CursorLeft(D) ==
    /\ ~crashed
    /\ \E d \in D :
         /\ ev' = Event("leave", d, None, None, None, hovered)
         /\ IF mwidget # None
            THEN /\ mwidget' = None
                 /\ hovered' = None
                 /\ calls' = clear_hover_calls(hovered)
            ELSE /\ calls' = <<>>
                 /\ UNCHANGED <<mwidget, hovered>>
    /\ op' = NoOp
    /\ UNCHANGED <<nodes, next_key, crashed, hits, layout, focused, location,
                   devices, owner, should_close, issued, inserted>>
    /\ UNCHANGED libVars

\* GooeyWindow.root.id: the id of the widget initialize pushed first.
root == 0

\* A mutant of the keyboard target: the hovered widget, else the root.
keyboard_target_hovered == IF hovered # None THEN hovered ELSE root

\* tree.focused_widget().unwrap_or(self.root.id), of keyboard_input and ime.
keyboard_target == IF focused # None THEN focused ELSE root

\* A mutant of the wheel target: the focused widget, else the root.
wheel_target_focused == IF focused # None THEN focused ELSE root

\* tree.hovered_widget().unwrap_or(self.root.id), of mouse_wheel.
wheel_target == IF hovered # None THEN hovered ELSE root

\* The callbacks of one bubbling of cb: each invoked widget returns HANDLED
\* (the handler) or IGNORED.
BubbleCalls(cb, invoked, handler) ==
    [i \in 1..Len(invoked) |->
        Call(cb, invoked[i], None, None, None,
             IF invoked[i] = handler THEN HANDLED ELSE IGNORED, focused)]

\* A mutant of the shortcut guard: a key press is looked at too.
shortcut_checked_on_press(handled, is_pressed) == ~handled

\* The guard of the window's shortcuts in keyboard_input.
shortcut_checked(handled, is_pressed) == ~handled /\ ~is_pressed

\* A mutant of request_close: the behavior's answer replaces the flag.
request_close_assign(flag, close_requested) == close_requested

\* GooeyWindow::request_close: self.should_close |= close_requested(..).
request_close(flag, close_requested) == flag \/ close_requested

\* GooeyWindow::request_close: the behavior is asked close_requested.
request_close_calls(close_requested) ==
    <<Call("close_requested", None, None, None, None,
           IF close_requested THEN "true" ELSE "false", focused)>>

\* GooeyWindow::keyboard_input: keyboard_input bubbles from the target; an
\* unhandled key release of the close shortcut asks request_close, which
\* ors the behavior's answer into should_close.
KeyboardInput ==
    /\ ~crashed
    /\ \E h \in Chain(keyboard_target) \cup {None}, is_pressed \in BOOLEAN,
          shortcut \in BOOLEAN, close_requested \in BOOLEAN :
         LET outcome == [w \in WidgetIds |-> IF w = h THEN HANDLED ELSE IGNORED]
             r == recursively_handle_event(keyboard_target, outcome)
             handled == r.handler # None
             checked == shortcut_checked(handled, is_pressed)
         IN  /\ ev' = [Event("key", None, None, None, r.handler, focused)
                          EXCEPT !.key = [pressed |-> is_pressed,
                                          checked |-> checked]]
             /\ calls' = BubbleCalls("keyboard_input", r.invoked, h) \o
                           (IF checked /\ shortcut
                            THEN request_close_calls(close_requested)
                            ELSE <<>>)
             /\ should_close' =
                  IF checked /\ shortcut
                  THEN request_close(should_close, close_requested)
                  ELSE should_close
    /\ op' = NoOp
    /\ UNCHANGED <<nodes, next_key, crashed, hits, layout, hovered, focused,
                   location, mwidget, devices, owner, issued, inserted>>
    /\ UNCHANGED libVars

\* GooeyWindow::close_requested (the platform's close request): the answer
\* is request_close's.
CloseRequested ==
    /\ ~crashed
    /\ \E close_requested \in BOOLEAN :
         /\ calls' = request_close_calls(close_requested)
         /\ should_close' = request_close(should_close, close_requested)
         /\ ev' = [Other("close_requested") EXCEPT
                     !.ret = IF should_close' THEN "true" ELSE "false"]
    /\ op' = NoOp
    /\ UNCHANGED <<nodes, next_key, crashed, hits, layout, hovered, focused,
                   location, mwidget, devices, owner, issued, inserted>>
    /\ UNCHANGED libVars

\* GooeyWindow::render: the frame is drawn and !self.should_close returned.
Render ==
    /\ ~crashed
    /\ ev' = [Other("render") EXCEPT
                !.ret = IF ~should_close THEN "true" ELSE "false"]
    /\ calls' = <<>>
    /\ op' = NoOp
    /\ UNCHANGED <<nodes, next_key, crashed, hits, layout, hovered, focused,
                   location, mwidget, devices, owner, should_close, issued,
                   inserted>>
    /\ UNCHANGED libVars

\* GooeyWindow::ime: ime bubbles from the target; the result is dropped.
Ime ==
    /\ ~crashed
    /\ \E h \in Chain(keyboard_target) \cup {None} :
         LET outcome == [w \in WidgetIds |-> IF w = h THEN HANDLED ELSE IGNORED]
             r == recursively_handle_event(keyboard_target, outcome)
         IN  /\ ev' = Event("ime", None, None, None, r.handler, focused)
             /\ calls' = BubbleCalls("ime", r.invoked, h)
    /\ op' = NoOp
    /\ UNCHANGED <<nodes, next_key, crashed, hits, layout, hovered, focused,
                   location, mwidget, devices, owner, should_close, issued,
                   inserted>>
    /\ UNCHANGED libVars

\* GooeyWindow::mouse_wheel: mouse_wheel bubbles from the target; the result
\* is dropped.
MouseWheel(D) ==
    /\ ~crashed
    /\ \E d \in D, h \in Chain(wheel_target) \cup {None} :
         LET outcome == [w \in WidgetIds |-> IF w = h THEN HANDLED ELSE IGNORED]
             r == recursively_handle_event(wheel_target, outcome)
         IN  /\ ev' = Event("wheel", d, None, None, r.handler, hovered)
             /\ calls' = BubbleCalls("mouse_wheel", r.invoked, h)
    /\ op' = NoOp
    /\ UNCHANGED <<nodes, next_key, crashed, hits, layout, hovered, focused,
                   location, mwidget, devices, owner, should_close, issued,
                   inserted>>
    /\ UNCHANGED libVars

\* A widget mounts a child (WidgetRef::mounted, context.push_child): an
\* insert under a widget of the tree; the child's type may override hit_test.
Mount ==
    /\ ~crashed
    /\ next_key < MaxWidgets
    /\ \E p \in Keys(nodes), interactive \in BOOLEAN :
         LET r == insert_child_f(nodes, next_key, p)
         IN  /\ nodes' = r.nodes
             /\ next_key' = r.next_key
             /\ op' = <<"insert_child", p, r.ret>>
             /\ hits' = IF interactive THEN hits \cup {r.ret} ELSE hits
             /\ Returned(r.ret)
             /\ calls' = mounted_calls(r.ret)
    /\ ev' = Other("mount")
    /\ UNCHANGED <<crashed, layout, hovered, focused, location, mwidget,
                   devices, owner, should_close>>
    /\ UNCHANGED libVars

\* The arena's registers on a removal: one that names a removed node is
\* emptied.
register_after_removal(reg, ns) ==
    IF reg # None /\ ~contains_key(ns, reg) THEN None ELSE reg

\* A widget of the window's tree is removed with its descendants
\* (Tree::remove_node); in the arena the removed nodes' rectangles go with
\* them and its hover and focus registers let go of them.  The window's
\* MouseState is no part of the tree and is not touched.
Unmount ==
    /\ ~crashed
    /\ \E k \in Keys(nodes) :
         /\ nodes' = remove_node(nodes, k)
         /\ op' = <<"remove_node", k, None>>
         /\ layout' = [w \in WidgetIds |->
                         IF contains_key(nodes', w) THEN layout[w] ELSE NoRect]
         /\ hovered' = register_after_removal(hovered, nodes')
         /\ focused' = register_after_removal(focused, nodes')
         /\ calls' = unmounted_calls(nodes, nodes')
    /\ ev' = Other("unmount")
    /\ UNCHANGED <<next_key, crashed, hits, location, mwidget, devices, owner,
                   should_close, issued, inserted>>
    /\ UNCHANGED libVars

\* A layout pass caches a widget's rectangle (ManagedWidget::set_layout); a
\* parent is laid out before its children.
SetLayout ==
    /\ ~crashed
    /\ \E w \in Keys(nodes), r \in Rects :
         /\ parent(w) # None => last_layout(parent(w)) # NoRect
         /\ layout' = [layout EXCEPT ![w] = r]
    /\ ev' = Other("layout")
    /\ calls' = <<>>
    /\ op' = NoOp
    /\ UNCHANGED <<nodes, next_key, crashed, hits, hovered, focused, location,
                   mwidget, devices, owner, should_close, issued, inserted>>
    /\ UNCHANGED libVars

\* GooeyWindow::initialize: a new Tree with the root widget pushed, no close
\* request, and an empty MouseState.
Init ==
    /\ nodes = insert_child_f(<<>>, 0, None).nodes
    /\ next_key = 1
    /\ op = <<"insert_child", None, 0>>
    /\ crashed = FALSE
    /\ hits \in {{}, {0}}
    /\ layout = [w \in WidgetIds |-> NoRect]
    /\ hovered = None
    /\ focused = None
    /\ location = None
    /\ mwidget = None
    /\ devices = [d \in Devices |-> [present |-> FALSE,
                                     buttons |-> [b \in Buttons |-> None]]]
    /\ ev = Other("none")
    /\ calls = <<>>
    /\ owner = [d \in Devices |-> [b \in Buttons |-> None]]
    /\ should_close = FALSE
    /\ issued = {0}
    /\ inserted = <<0>>
    /\ LibInit

Next ==
    \/ Mount
    \/ Unmount
    \/ SetLayout
    \/ CursorMoved(MainDevices)
    \/ CursorLeft(MainDevices)
    \/ MousePressed(MainDevices, Buttons)
    \/ MouseReleased(MainDevices, Buttons)

\* The window with one pointer device: platform events, mounts, removals and
\* layout passes in any order, one at a time (the single UI thread).
Spec == Init /\ [][Next]_vars

\* Mount, up to MaxHoverWidgets widgets.
MountWide ==
    /\ ~crashed
    /\ next_key < MaxHoverWidgets
    /\ \E p \in Keys(nodes), interactive \in BOOLEAN :
         LET r == insert_child_f(nodes, next_key, p)
         IN  /\ nodes' = r.nodes
             /\ next_key' = r.next_key
             /\ op' = <<"insert_child", p, r.ret>>
             /\ hits' = IF interactive THEN hits \cup {r.ret} ELSE hits
             /\ Returned(r.ret)
             /\ calls' = mounted_calls(r.ret)
    /\ ev' = Other("mount")
    /\ UNCHANGED <<crashed, layout, hovered, focused, location, mwidget,
                   devices, owner, should_close>>
    /\ UNCHANGED libVars

HoverNext ==
    \/ MountWide
    \/ Unmount
    \/ SetLayout
    \/ CursorMoved(MainDevices)
    \/ CursorLeft(MainDevices)

\* The window with no button pressed: cursor moves over a tree of up to
\* MaxHoverWidgets widgets, siblings included.
HoverSpec == Init /\ [][HoverNext]_vars

\* The button the all-events specification presses and releases.
MainButtons == {1}

DeviceNext ==
    \/ Mount
    \/ Unmount
    \/ SetLayout
    \/ CursorMoved(Devices)
    \/ CursorLeft(Devices)
    \/ MousePressed(Devices, MainButtons)
    \/ MouseReleased(Devices, MainButtons)

\* The window with NumDevices pointer devices of one button each.
DeviceSpec == Init /\ [][DeviceNext]_vars

InputNext ==
    \/ Mount
    \/ Unmount
    \/ SetLayout
    \/ CursorMoved(MainDevices)
    \/ CursorLeft(MainDevices)
    \/ MousePressed(MainDevices, MainButtons)
    \/ MouseReleased(MainDevices, MainButtons)
    \/ KeyboardInput
    \/ Ime
    \/ MouseWheel(MainDevices)

\* The window with one pointer device and one button, and every kind of
\* input event the window handles.
InputSpec == Init /\ [][InputNext]_vars

CloseNext ==
    \/ InputNext
    \/ CloseRequested
    \/ Render

\* The same window with the platform's close requests and its frames.
CloseSpec == Init /\ [][CloseNext]_vars

\* ------------------------------------------------------ reading the calls

\* The callbacks of the last event named cb, in order.
CallsOf(cb) == SelectSeq(calls, LAMBDA c : c.cb = cb)

\* The last event invoked cb on w.
Invoked(cb, w) == \E i \in 1..Len(calls) : calls[i].cb = cb /\ calls[i].w = w

\* The frontmost widget of the tree whose rectangle contains p and whose
\* hit_test returns true there, or None: a hit-test from scratch.
FrontmostHit(p) ==
    LET po == PaintOrder(nodes, children_keys(nodes, None))
        on == {i \in 1..Len(po) :
                 /\ last_layout(po[i]) # NoRect
                 /\ last_layout(po[i])[1] <= p
                 /\ p <= last_layout(po[i])[2]
                 /\ po[i] \in hits}
    IN  IF on = {} THEN None
        ELSE po[CHOOSE i \in on : \A j \in on : j <= i]

\* (device, button) has a capture entry.
Captured(d, b) == devices[d].present /\ devices[d].buttons[b] # None

\* --------------------------------------------------- C2: capture delivery

C3_Bubbling ==
    ev.kind = "press" =>
        LET downs == CallsOf("mouse_down")
        IN  /\ (location # None /\ mwidget # None /\ ~crashed) =>
                  (downs # <<>> /\ downs[1].w = mwidget)
            /\ \A i \in 1..Len(downs) :
                 /\ i < Len(downs) =>
                      /\ downs[i].res = IGNORED
                      /\ downs[i + 1].w = parent(downs[i].w)
                 /\ (i = Len(downs) /\ downs[i].res = HANDLED) =>
                      ev.handler = downs[i].w
                 /\ (i = Len(downs) /\ downs[i].res = IGNORED) =>
                      (parent(downs[i].w) = None /\ ev.handler = None)
            /\ downs = <<>> => ev.handler = None

\* The child ignored the press and the root, its parent, handled it.
C3_Witness ==
    /\ ev.kind = "press"
    /\ Len(CallsOf("mouse_down")) = 2
    /\ CallsOf("mouse_down")[1].w = 1
    /\ CallsOf("mouse_down")[1].res = IGNORED
    /\ CallsOf("mouse_down")[2].w = 0
    /\ ev.handler = 0

\* ------------------------------------------------------------- C4: hover

\* C4: after a cursor move of a device without capture, the hovered widget
\* is the one a hit-test of the tree at the new position finds (none when
\* none matches); a previous holder X that differs from it was told
\* unhover, and when a widget Y matches, unhover(X) came before hover(Y).
C4_HoverProtocol ==
    (ev.kind = "move" /\ ~devices[ev.d].present) =>
        LET y == FrontmostHit(location)
            x == ev.was
        IN  /\ hovered = y
            /\ mwidget = y
            /\ y # None => Invoked("hover", y)
            /\ (x # None /\ x # y) => Invoked("unhover", x)
            /\ (x # None /\ y # None /\ x # y) =>
                 \E i, j \in 1..Len(calls) :
                    /\ i < j
                    /\ calls[i].cb = "unhover" /\ calls[i].w = x
                    /\ calls[j].cb = "hover" /\ calls[j].w = y
            /\ \A i \in 1..Len(calls) :
                 /\ calls[i].cb = "hover" => calls[i].w = y
                 /\ calls[i].cb = "unhover" => (calls[i].w = x /\ x # y)

\* Hover has passed from the root to the child: unhover(0), then hover(1).
C4_Witness ==
    /\ ev.kind = "move"
    /\ ev.was = 0
    /\ hovered = 1
    /\ Invoked("unhover", 0)
    /\ Invoked("hover", 1)

\* ------------------------------------------------- C5: focus on a press

\* C5: in every press the first mouse_down callback finds the focused
\* register empty (it was cleared before the dispatch), and after a press in
\* which no widget asked for focus, hitting a widget or not, none is focused:
\* a widget is focused after a press only by its own request.
C5_PressClearsFocus ==
    ev.kind = "press" =>
        /\ CallsOf("mouse_down") # <<>> => CallsOf("mouse_down")[1].foc = None
        /\ CallsOf("focus") = <<>> => focused = None
        /\ focused # None => Invoked("focus", focused)

\* A press blurred the focused root, reached the child, and nobody asked for
\* focus: no widget is focused.
C5_Witness ==
    /\ ev.kind = "press"
    /\ calls # <<>>
    /\ calls[1].cb = "blur" /\ calls[1].w = 0
    /\ Invoked("mouse_down", 1)
    /\ focused = None

\* ------------------------------------------------ C6: the target of a press

\* C6 (as claimed): a press that returns has invoked mouse_down first on the
\* widget a hit-test from scratch finds at the recorded cursor position at
\* the time of the press, and has invoked no mouse_down when it finds none.
C6_PressTargetsFreshHit ==
    (ev.kind = "press" /\ ~crashed) =>
        LET y == IF location = None THEN None ELSE FrontmostHit(location)
            downs == CallsOf("mouse_down")
        IN  /\ y = None => downs = <<>>
            /\ y # None => (downs # <<>> /\ downs[1].w = y)

\* ------------------------------------------ C7: default non-interactivity

\* C7 (as claimed): no widget with the default hit_test receives mouse_down
\* or hover.
C7_DefaultNeverDownOrHover ==
    \A i \in 1..Len(calls) :
        calls[i].cb \in {"mouse_down", "hover"} => calls[i].w \in hits

\* C7 (amended): a widget with the default hit_test is never hovered, never
\* recorded as the hovered widget and never the first widget of a mouse_down
\* dispatch; it receives mouse_down only as the parent of a widget that
\* returned IGNORED from the same press.
C7_DefaultNeverTargetNorHovered ==
    /\ \A i \in 1..Len(calls) : calls[i].cb = "hover" => calls[i].w \in hits
    /\ hovered # None => hovered \in hits
    /\ mwidget # None => mwidget \in hits
    /\ LET downs == CallsOf("mouse_down")
       IN  \A i \in 1..Len(downs) :
              downs[i].w \notin hits =>
                  /\ i > 1
                  /\ downs[i - 1].res = IGNORED
                  /\ parent(downs[i - 1].w) = downs[i].w

\* The root keeps the default hit_test and lies under the cursor; a press on
\* its child, which ignored it, has reached the root.
C7_Witness ==
    /\ ev.kind = "press"
    /\ 0 \notin hits
    /\ last_layout(0) # NoRect
    /\ mwidget = 1
    /\ Invoked("mouse_down", 0)

\* ---------------------------------------------------- C8: capture entries

\* C8: (device, button) has a capture entry exactly when a widget returned
\* HANDLED from a mouse_down of the pair and no mouse-up of the pair has been
\* processed since, and the entry is that widget; a press in which no widget
\* returned HANDLED yields no handler.
C8_CaptureIffHandled ==
    /\ \A d \in Devices, b \in Buttons :
         /\ Captured(d, b) <=> owner[d][b] # None
         /\ devices[d].buttons[b] = owner[d][b]
    /\ ev.kind = "press" =>
         (ev.handler # None <=>
            \E i \in 1..Len(calls) :
               /\ calls[i].cb = "mouse_down" /\ calls[i].res = HANDLED
               /\ calls[i].w = ev.handler)

\* After a release of button 2, button 1 is still captured by the root, an
\* ancestor of the press's target, and button 2 has no entry.
C8_Witness ==
    /\ ev.kind = "release" /\ ev.b = 2 /\ ev.held = 1
    /\ Captured(1, 1) /\ devices[1].buttons[1] = 0
    /\ ~Captured(1, 2)
    /\ mwidget = 1

\* ------------------------------------------- C9: the handler's callbacks

\* C9 (as claimed): after a cursor move of a device, every widget holding a
\* button of that device by a HANDLED mouse_down has been told mouse_drag for
\* it; after a release of a held button, its holder has been told mouse_up.
C9_HandlerGetsDragAndUp ==
    /\ ev.kind = "move" =>
         \A b \in Buttons :
            owner[ev.d][b] # None =>
               \E i \in 1..Len(calls) :
                  /\ calls[i].cb = "mouse_drag" /\ calls[i].w = owner[ev.d][b]
                  /\ calls[i].d = ev.d /\ calls[i].b = b
    /\ (ev.kind = "release" /\ ev.held # None) => Invoked("mouse_up", ev.held)

\* ------------------------------------------- C10: registers after removal

\* C10 (as claimed): no register names a widget that is not in the tree:
\* hovered, focused and every capture entry are empty or name a node.
C10_NoRegisterNamesRemoved ==
    /\ hovered # None => contains_key(nodes, hovered)
    /\ focused # None => contains_key(nodes, focused)
    /\ \A d \in Devices, b \in Buttons :
         Captured(d, b) => contains_key(nodes, devices[d].buttons[b])

\* -------------------------------------------------------- C11: key issue

\* The last operation was an insert that returned a key.
Inserted(o) == o[1] \in {"insert_child", "insert_after"} /\ o[3] # None

\* C11 (as claimed): with clear among the operations, every successful
\* insert returns a key greater than every key the Tree returned before.
C11_KeysNeverReused ==
    [][Inserted(op') => \A k \in issued : op'[3] > k]_vars

\* C11 (amended): every successful insert returns a key greater than every
\* key returned since the Tree was created or last cleared; clear empties the
\* tree and restarts the keys at 0.
C11_KeysIncreaseUntilClear ==
    [][/\ Inserted(op') =>
            \A i \in 1..Len(inserted) : op'[3] > inserted[i]
       /\ op'[1] = "clear" => (nodes' = <<>> /\ next_key' = 0)
       /\ (Inserted(op') /\ inserted = <<>>) => op'[3] = 0
      ]_vars

\* After a clear, keys 0 and 1 have been returned a second time.
C11_Witness ==
    /\ Inserted(op)
    /\ op[3] = 1
    /\ inserted = <<0, 1>>
    /\ 3 \in issued

\* ------------------------------------------- C12: insert, unknown parent

\* C12: insert_child with a parent key that is not in the tree returns None,
\* does not panic, and changes neither the nodes nor next_key; a successful
\* insert returns next_key, so the failed one consumed no key.
C12_UnknownParentRejected ==
    [][/\ (op'[1] = "insert_child" /\ op'[2] # None
            /\ ~contains_key(nodes, op'[2])) =>
            /\ op'[3] = None
            /\ ~crashed'
            /\ nodes' = nodes
            /\ next_key' = next_key
       /\ Inserted(op') => op'[3] = next_key
      ]_vars

\* Key 1 was inserted under the root and removed; an insert under 1 has
\* returned None and the next key is still 2.
C12_Witness ==
    /\ op = <<"insert_child", 1, None>>
    /\ Keys(nodes) = {0}
    /\ next_key = 2
    /\ ~crashed

\* ------------------------------------ C13: insert_after, no such sibling

\* C13: insert_after with a sibling that is not in the tree, or that is a
\* root, returns None, does not panic and leaves the tree unchanged.
C13_InsertAfterAbsentOrRoot ==
    [][(op'[1] = "insert_after"
          /\ (~contains_key(nodes, op'[2]) \/ ParentOf(nodes, op'[2]) = None)) =>
          /\ op'[3] = None
          /\ ~crashed'
          /\ nodes' = nodes
          /\ next_key' = next_key
      ]_vars

\* --------------------------------------------- C14: removal, absent key

\* C14: remove_node on a key that is not in the tree changes neither the
\* nodes (their set, order and links) nor next_key and raises no error;
\* removing a key a second time gives the tree of the first removal.
C14_RemoveAbsentIsNoOp ==
    [][/\ (op'[1] = "remove_node" /\ ~contains_key(nodes, op'[2])) =>
            /\ nodes' = nodes
            /\ next_key' = next_key
            /\ ~crashed'
       /\ \A k \in 0..(MaxKeys - 1) :
            remove_node(remove_node(nodes, k), k) = remove_node(nodes, k)
      ]_vars

\* A key the Tree never returned has been removed from a tree of two nodes.
C14_Witness ==
    /\ op[1] = "remove_node"
    /\ op[2] \notin issued
    /\ Len(nodes) = 2
    /\ ~crashed

\* ------------------------------------------------- C15: order of children

\* The keys of `inserted` that are now children of p, in insertion order.
InsertedUnder(p) ==
    SelectSeq(inserted, LAMBDA k : contains_key(nodes, k) /\ ParentOf(nodes, k) = p)

\* C15: children_keys(p) is exactly the current children of p in the order
\* of their insertion, whatever was inserted and removed.
C15_ChildrenInInsertionOrder ==
    \A p \in 0..(MaxKeys - 1) : children_keys(nodes, p) = InsertedUnder(p)

\* Root 0 got the children 1, 2 (after 1) and 3; removing 1 has left 2
\* before 3.
C15_Witness ==
    /\ op = <<"remove_node", 1, None>>
    /\ children_keys(nodes, 0) = <<2, 3>>
    /\ inserted = <<0, 1, 2, 3>>

\* ------------------------------------- C16: postcondition of an insert

\* C16: a successful insert returns 0 on a new (or cleared) Tree and the
\* previously returned key plus one afterwards, and adds exactly one node;
\* insert_child records the given parent and the parent's depth plus one (no
\* parent and depth 0 without one); insert_after records the sibling's
\* parent and depth.
C16_InsertPostcondition ==
    [][Inserted(op') =>
         /\ op'[3] = IF inserted = <<>> THEN 0
                     ELSE inserted[Len(inserted)] + 1
         /\ Len(nodes') = Len(nodes) + 1
         /\ Keys(nodes') = Keys(nodes) \cup {op'[3]}
         /\ op'[1] = "insert_child" =>
              /\ get(nodes', op'[3]).parent = op'[2]
              /\ get(nodes', op'[3]).depth =
                    IF op'[2] = None THEN 0 ELSE get(nodes, op'[2]).depth + 1
         /\ op'[1] = "insert_after" =>
              /\ get(nodes', op'[3]).parent = get(nodes, op'[2]).parent
              /\ get(nodes', op'[3]).depth = get(nodes, op'[2]).depth
      ]_vars

\* The specification's scenario: root 0, child 1, and 2 inserted after 1 is
\* a child of 0 at depth 1.
C16_Witness ==
    /\ op = <<"insert_after", 1, 2>>
    /\ KeySeq(nodes) = <<0, 1, 2>>
    /\ ParentOf(nodes, 2) = 0
    /\ get(nodes, 2).depth = 1
    /\ get(nodes, 1).depth = 1

\* -------------------------------------- C17, C18: keyboard, IME and wheel

\* The widget calls of the last event are one bubbling of cb from `start`:
\* the first is on start, each next one is on the parent of the widget before
\* it, which returned IGNORED, and the last returned HANDLED or has no
\* parent.
BubblesFrom(cb, start) ==
    LET ws == SelectSeq(calls, LAMBDA c : c.w # None)
    IN  /\ ws # <<>>
        /\ ws[1].w = start
        /\ \A i \in 1..Len(ws) : ws[i].cb = cb
        /\ \A i \in 1..(Len(ws) - 1) :
             /\ ws[i].res = IGNORED
             /\ ws[i + 1].w = parent(ws[i].w)
        /\ \/ ws[Len(ws)].res = HANDLED
           \/ parent(ws[Len(ws)].w) = None

\* C17: a keyboard or IME event is dispatched first to the widget that was
\* focused when it arrived, to the root when none was, and from there up the
\* parent chain.
C17_KeyStartsAtFocusedElseRoot ==
    /\ ev.kind = "key" =>
         BubblesFrom("keyboard_input", IF ev.was # None THEN ev.was ELSE root)
    /\ ev.kind = "ime" =>
         BubblesFrom("ime", IF ev.was # None THEN ev.was ELSE root)

\* The child is focused while the root is hovered; a key event has gone to
\* the child first and was handled by the root.
C17_Witness ==
    /\ ev.kind = "key"
    /\ ev.was = 1
    /\ hovered = 0
    /\ calls[1].w = 1
    /\ ev.handler = 0

\* C18: a mouse-wheel event is dispatched first to the widget that was
\* hovered when it arrived, to the root when none was, and bubbles up the
\* parent chain until a widget returns HANDLED.
C18_WheelStartsAtHoveredElseRoot ==
    ev.kind = "wheel" =>
        /\ BubblesFrom("mouse_wheel", IF ev.was # None THEN ev.was ELSE root)
        /\ \A i \in 1..Len(calls) :
             calls[i].res = HANDLED => (i = Len(calls) /\ ev.handler = calls[i].w)

\* The child is hovered while the root is focused; a wheel event has gone
\* to the child first and was handled by the root.
C18_Witness ==
    /\ ev.kind = "wheel"
    /\ ev.was = 1
    /\ focused = 0
    /\ calls[1].w = 1
    /\ ev.handler = 0

\* ------------------------------------------- C19: exclusive registers

\* In the calls cs, a call of `first` on a comes before a call of `then` on b.
Precedes(cs, first, a, then, b) ==
    \E i, j \in 1..Len(cs) :
        /\ i < j
        /\ cs[i].cb = first /\ cs[i].w = a
        /\ cs[j].cb = then /\ cs[j].w = b

\* C19: at most one widget is hovered and at most one is focused; when a
\* register passes from one widget to another, the previous holder is told
\* unhover (blur) before the new one is told hover (focus), and a widget told
\* hover or focus last in an event is the holder after it.
C19_ExclusiveRegisters ==
    [][/\ Cardinality({w \in WidgetIds : primary_hover(w)}) <= 1
       /\ Cardinality({w \in WidgetIds : widget_focused(w)}) <= 1
       /\ (hovered # None /\ hovered' # None /\ hovered' # hovered) =>
            Precedes(calls', "unhover", hovered, "hover", hovered')
       /\ (focused # None /\ focused' # None /\ focused' # focused) =>
            Precedes(calls', "blur", focused, "focus", focused')
       /\ \A i \in 1..Len(calls') :
            /\ calls'[i].cb = "hover" => hovered' = calls'[i].w
            /\ calls'[i].cb = "focus" => focused' = calls'[i].w
      ]_vars

\* A press has moved the focus from the root to the hovered child: the root
\* was blurred, then the child focused.
C19_Witness ==
    /\ ev.kind = "press"
    /\ hovered = 1
    /\ focused = 1
    /\ Precedes(calls, "blur", 0, "focus", 1)

\* ------------------------------------------------------ C20: cursor leave

\* C20: after a cursor-leave event no widget is hovered, and the window
\* records none.
C20_LeaveClearsHover ==
    ev.kind = "leave" => (hovered = None /\ mwidget = None)

\* The cursor has left while the root, hovered until then, holds a capture:
\* the root was told unhover and nothing is hovered.
C20_Witness ==
    /\ ev.kind = "leave"
    /\ ev.was = 0
    /\ Captured(1, 1)
    /\ Invoked("unhover", 0)
    /\ hovered = None

\* ----------------------------------- C21: release without a rectangle

\* C21: a release of a captured (device, button) never fails and tells the
\* captured widget mouse_up, once: with no position when the widget has no
\* rectangle (it was removed while captured) or no location is recorded,
\* with the position relative to its origin otherwise.
C21_ReleaseAlwaysDelivers ==
    (ev.kind = "release" /\ ev.held # None) =>
        /\ ~crashed
        /\ Len(calls) = 1
        /\ calls[1].cb = "mouse_up"
        /\ calls[1].w = ev.held
        /\ calls[1].d = ev.d /\ calls[1].b = ev.b
        /\ IF last_layout(ev.held) = NoRect \/ location = None
           THEN ~calls[1].pos.some
           ELSE /\ calls[1].pos.some
                /\ calls[1].pos.at = location - last_layout(ev.held)[1]

\* The root handled a press and was removed while the button was held; the
\* release has told it mouse_up without a position.
C21_Witness ==
    /\ ev.kind = "release"
    /\ ev.held = 0
    /\ ~contains_key(nodes, 0)
    /\ Invoked("mouse_up", 0)
    /\ ~calls[1].pos.some

\* ------------------------------------------- C22: missing rectangles

\* C22: no cursor move, press, release or cursor-leave aborts: the handler
\* of every event returns, whatever rectangles are cached.
C22_NoEventAborts ==
    ev.kind \in {"move", "press", "release", "leave"} => ~crashed

\* ------------------------------------------------------- C23: lifecycle

\* The number of calls of cb on w among cs.
Count(cs, cb, w) ==
    Cardinality({i \in 1..Len(cs) : cs[i].cb = cb /\ cs[i].w = w})

\* C23: an insert tells the new node mounted, once, and nobody else; a
\* removal tells each removed node unmounted, once, and nobody else; no
\* other step tells either; and every other callback goes to a node that
\* is in the tree: mounted and not yet unmounted.
C23_Lifecycle ==
    [][/\ \A w \in WidgetIds :
            /\ Count(calls', "mounted", w) =
                  IF Inserted(op') /\ op'[3] = w THEN 1 ELSE 0
            /\ Count(calls', "unmounted", w) =
                  IF contains_key(nodes, w) /\ ~contains_key(nodes', w)
                  THEN 1 ELSE 0
       /\ \A i \in 1..Len(calls') :
            (calls'[i].cb \notin {"mounted", "unmounted"} /\ calls'[i].w # None)
                => contains_key(nodes', calls'[i].w)
      ]_vars

\* ------------------------------------------- widget.rs: WidgetInstance::lock

\* Writes to the widget a run of the lock specification makes at most.
MaxWrites == 2

\* std::sync::Mutex::lock once the mutex is free: Ok(guard), or
\* Err(PoisonError(guard)) when a holder panicked.
mutex_lock(m) == [ok |-> ~m.poisoned, guard |-> TRUE]

\* A mutant of lock: the result is unwrapped, which panics on a poisoned
\* mutex.
lock_unwrap(m) == IF mutex_lock(m).ok THEN "guard" ELSE "panic"

\* WidgetInstance::lock: map_or_else(PoisonError::into_inner, |g| g) takes
\* the guard out of either result.
lock(m) ==
    IF mutex_lock(m).ok THEN "guard"
    ELSE IF mutex_lock(m).guard THEN "guard" ELSE "panic"

\* A mutant of the wait: a poisoned mutex is handed out at once.
mutex_free_or_poisoned(m) == m.locked_by = None \/ m.poisoned

\* self.widget.lock() returns only once no MutexGuard of the mutex exists.
mutex_free(m) == m.locked_by = None

\* A thread calls lock() and waits for the mutex.
LockCall ==
    \E t \in Threads :
        /\ pc[t] = "idle"
        /\ pc' = [pc EXCEPT ![t] = "waiting"]
        /\ UNCHANGED <<mutex, widget_state, handles, created>>
        /\ UNCHANGED <<treeVars, winVars, refVars, lazyVars>>

\* The mutex is free: lock() returns to a waiting thread, with a WidgetGuard
\* or by panicking.
LockReturn ==
    \E t \in Threads :
        /\ pc[t] = "waiting"
        /\ mutex_free(mutex)
        /\ IF lock(mutex) = "guard"
           THEN /\ pc' = [pc EXCEPT ![t] = "guard"]
                /\ mutex' = [mutex EXCEPT !.locked_by = t]
           ELSE /\ pc' = [pc EXCEPT ![t] = "lock_failed"]
                /\ UNCHANGED mutex
        /\ UNCHANGED <<widget_state, handles, created>>
        /\ UNCHANGED <<treeVars, winVars, refVars, lazyVars>>

\* The holder of the guard changes the widget through it.
GuardWrite ==
    \E t \in Threads :
        /\ pc[t] = "guard"
        /\ widget_state < MaxWrites
        /\ widget_state' = widget_state + 1
        /\ UNCHANGED <<mutex, pc, handles, created>>
        /\ UNCHANGED <<treeVars, winVars, refVars, lazyVars>>

\* The WidgetGuard goes out of scope: the MutexGuard is dropped.
GuardDrop ==
    \E t \in Threads :
        /\ pc[t] = "guard"
        /\ pc' = [pc EXCEPT ![t] = "idle"]
        /\ mutex' = [mutex EXCEPT !.locked_by = None]
        /\ UNCHANGED <<widget_state, handles, created>>
        /\ UNCHANGED <<treeVars, winVars, refVars, lazyVars>>

\* The holder panics: the unwind drops the MutexGuard, which unlocks the
\* mutex and marks it poisoned; the thread is gone.
GuardPanic ==
    \E t \in Threads :
        /\ pc[t] = "guard"
        /\ pc' = [pc EXCEPT ![t] = "panicked"]
        /\ mutex' = [locked_by |-> None, poisoned |-> TRUE]
        /\ UNCHANGED <<widget_state, handles, created>>
        /\ UNCHANGED <<treeVars, winVars, refVars, lazyVars>>

LockNext ==
    \/ LockCall
    \/ LockReturn
    \/ GuardWrite
    \/ GuardDrop
    \/ GuardPanic

\* Threads locking clones of one WidgetInstance, some of them panicking
\* while they hold the guard.
LockSpec == TreeInit /\ [][LockNext]_vars

\* ------------------------------------------------- C24: poisoned lock

\* C24: no lock() ever fails or panics, poisoned or not; a thread that
\* panicked with the guard does not keep the mutex, so the mutex is held
\* only by a thread that has a guard and may drop it; and on a free mutex
\* lock() returns a guard.
C24_PoisonedLockStillLocks ==
    /\ \A t \in Threads : pc[t] # "lock_failed"
    /\ \A t \in Threads : pc[t] = "guard" <=> mutex.locked_by = t
    /\ mutex.locked_by = None => lock(mutex) = "guard"

\* After one thread panicked with the guard, having changed the widget,
\* another holds a guard on the poisoned mutex.
C24_Witness ==
    /\ mutex.poisoned
    /\ widget_state > 0
    /\ \E t, u \in Threads : pc[t] = "panicked" /\ pc[u] = "guard"

\* ------------------------------------------ widget.rs: equality of handles

\* A handle is a WidgetInstance (id and tree None) or a ManagedWidget (id,
\* tree and its WidgetInstance).  A WidgetInstance is its Arc, given by the
\* address of the allocation (ptr), and its next_focus link; origin numbers
\* the WidgetInstance::new call the allocation came from.
Live(i) == handles[i] # NoHandle

\* The addresses of the allocations some handle keeps alive, directly or as
\* its next_focus.
LiveAddrs ==
    {handles[i].widget.ptr : i \in {j \in Slots : Live(j)}}
      \cup {handles[i].widget.next_focus :
               i \in {j \in Slots : Live(j) /\ handles[j].widget.next_focus # None}}

\* A mutant of the equality: the derived one, which compares every field.
widget_eq_derived(a, b) == a.ptr = b.ptr /\ a.next_focus = b.next_focus

\* impl PartialEq for WidgetInstance: Arc::ptr_eq on the widget.
widget_eq(a, b) == a.ptr = b.ptr

\* impl PartialEq for ManagedWidget, and for ManagedWidget against a
\* WidgetInstance: the equality of the WidgetInstances.
managed_eq(a, b) == widget_eq(a.widget, b.widget)

\* WidgetInstance::new: a new allocation, at an address no live allocation
\* has, and no next_focus.
New ==
    /\ created < MaxCreated
    /\ \E i \in Slots, addr \in Addrs \ LiveAddrs :
         /\ ~Live(i)
         /\ handles' = [handles EXCEPT ![i] =
                          [id |-> None, tree |-> None,
                           widget |-> [origin |-> created + 1, ptr |-> addr,
                                       next_focus |-> None]]]
    /\ created' = created + 1
    /\ UNCHANGED <<mutex, pc, widget_state>>
    /\ UNCHANGED <<treeVars, winVars, refVars, lazyVars>>

\* Clone::clone of a handle.
CloneHandle ==
    /\ \E i, j \in Slots :
         /\ Live(i) /\ ~Live(j)
         /\ handles' = [handles EXCEPT ![j] = handles[i]]
    /\ UNCHANGED <<mutex, pc, widget_state, created>>
    /\ UNCHANGED <<treeVars, winVars, refVars, lazyVars>>

\* WidgetInstance::with_next_focus: the same Arc with another link.
WithNextFocus ==
    /\ \E i, j \in Slots :
         /\ Live(i) /\ Live(j)
         /\ handles[i].id = None
         /\ handles' = [handles EXCEPT ![i].widget.next_focus =
                                           handles[j].widget.ptr]
    /\ UNCHANGED <<mutex, pc, widget_state, created>>
    /\ UNCHANGED <<treeVars, winVars, refVars, lazyVars>>

\* A WidgetInstance is pushed into a tree (context.push_child, push_boxed):
\* the ManagedWidget holds the instance with the id it got in that tree.
PushHandle ==
    /\ \E i, j \in Slots, id \in WidgetIds, tree \in 1..2 :
         /\ Live(i) /\ ~Live(j)
         /\ handles[i].id = None
         /\ handles' = [handles EXCEPT ![j] =
                          [id |-> id, tree |-> tree, widget |-> handles[i].widget]]
    /\ UNCHANGED <<mutex, pc, widget_state, created>>
    /\ UNCHANGED <<treeVars, winVars, refVars, lazyVars>>

\* A handle is dropped; its allocation is freed with its last handle.
DropHandle ==
    /\ \E i \in Slots :
         /\ Live(i)
         /\ handles' = [handles EXCEPT ![i] = NoHandle]
    /\ UNCHANGED <<mutex, pc, widget_state, created>>
    /\ UNCHANGED <<treeVars, winVars, refVars, lazyVars>>

EqNext ==
    \/ New
    \/ CloneHandle
    \/ WithNextFocus
    \/ PushHandle
    \/ DropHandle

\* Handles made, cloned, linked, pushed and dropped in any order.
EqSpec == TreeInit /\ [][EqNext]_vars

\* ------------------------------------------------ C25: handle equality

\* C25: two live handles are equal exactly when their widget comes from the
\* same WidgetInstance::new call, whatever their ids, trees and next_focus
\* links; so a clone equals its original and instances created separately
\* are unequal.
C25_EqualityIsIdentity ==
    \A i, j \in Slots :
        (Live(i) /\ Live(j)) =>
            (managed_eq(handles[i], handles[j])
               <=> handles[i].widget.origin = handles[j].widget.origin)

\* One instance is held bare with a next_focus link and as a ManagedWidget
\* without it, next to an instance created separately.
C25_Witness ==
    \E i, j, k \in Slots :
        /\ Live(i) /\ Live(j) /\ Live(k)
        /\ handles[i].widget.origin = handles[j].widget.origin
        /\ handles[i].id = None /\ handles[j].id # None
        /\ handles[i].widget.next_focus # handles[j].widget.next_focus
        /\ handles[k].widget.origin # handles[i].widget.origin
        /\ managed_eq(handles[i], handles[j])
        /\ ~managed_eq(handles[i], handles[k])

\* ------------------------------------------- C26: bubbling terminates

\* The four callbacks that bubble.
BubblingCallbacks == {"mouse_down", "keyboard_input", "ime", "mouse_wheel"}

\* TreeNode.depth of a widget of the tree; 0 for one that has left it.
Depth(w) == IF contains_key(nodes, w) THEN get(nodes, w).depth ELSE 0

\* C26: the bubbling callbacks of one event go to the initial target and to
\* ancestors of it only, to each at most once, and are at most the target's
\* depth plus one.
C26_BubblingBounded ==
    LET bs == SelectSeq(calls, LAMBDA c : c.cb \in BubblingCallbacks)
    IN  bs # <<>> =>
          /\ \A i, j \in 1..Len(bs) : i # j => bs[i].w # bs[j].w
          /\ \A i \in 1..Len(bs) : bs[i].w \in Chain(bs[1].w)
          /\ Len(bs) <= Depth(bs[1].w) + 1

\* An IME event started at the focused child, at depth 1, and was ignored by
\* the child and by the root: two invocations.
C26_Witness ==
    /\ ev.kind = "ime"
    /\ ev.handler = None
    /\ Len(calls) = 2
    /\ calls[1].w = 1
    /\ Depth(1) = 1

\* ------------------------------------------------------------ C27: roots

\* The parentless nodes of the tree.
Roots(ns) == {k \in Keys(ns) : get(ns, k).parent = None}

\* C27 (as claimed): the tree never holds two parentless nodes.
C27_SingleRoot == Cardinality(Roots(nodes)) <= 1

\* C27 (amended): every key has one entry, hence one parent; an insert_child
\* without a parent adds a parentless node, whatever the tree holds, and no
\* other insert adds or removes one; the node make_widget displays, the
\* first of the map, is parentless.
C27_RootsOnlyByInsertChild ==
    [][/\ \A i, j \in 1..Len(nodes') :
            nodes'[i].key = nodes'[j].key => i = j
       /\ Inserted(op') =>
            Roots(nodes') =
              Roots(nodes) \cup (IF op'[1] = "insert_child" /\ op'[2] = None
                                 THEN {op'[3]} ELSE {})
       /\ nodes' # <<>> => make_widget(nodes') \in Roots(nodes')
      ]_vars

\* A second insert_child without a parent has given the tree two parentless
\* nodes; the first is the one displayed.
C27_Witness ==
    /\ op = <<"insert_child", None, 2>>
    /\ Roots(nodes) = {0, 2}
    /\ make_widget(nodes) = 0
    /\ ParentOf(nodes, 1) = 0

\* ------------------------------------------ C28: no empty device entry

\* C28: a device has an entry in the capture map exactly while one of its
\* buttons is captured; the entry appears only with a press of the device
\* that a widget handled and goes only with a release of the device; and a
\* cursor move of a device without captured button runs the hover pass (no
\* mouse_drag, the hovered widget found by hit-testing at the new location).
C28_NoEmptyDeviceEntry ==
    [][\A d \in Devices :
         /\ devices'[d].present <=> \E b \in Buttons : devices'[d].buttons[b] # None
         /\ (~devices[d].present /\ devices'[d].present) =>
              (ev'.kind = "press" /\ ev'.d = d /\ ev'.handler # None)
         /\ (devices[d].present /\ ~devices'[d].present) =>
              (ev'.kind = "release" /\ ev'.d = d)
         /\ (ev'.kind = "move" /\ ev'.d = d /\ ~crashed'
                /\ \A b \in Buttons : devices[d].buttons[b] = None) =>
              /\ \A i \in 1..Len(calls') : calls'[i].cb # "mouse_drag"
              /\ mwidget' = FrontmostHit(location')
              /\ hovered' = mwidget'
      ]_vars

\* Both buttons were captured; the release of the second one has removed
\* the device's entry.
C28_Witness ==
    /\ ev.kind = "release"
    /\ ev.held # None
    /\ ev.b = 2
    /\ ~devices[1].present
    /\ \A b \in Buttons : devices[1].buttons[b] = None

\* ------------------------------------------------ C29: the hover pass

\* The candidates cs are front to back: no candidate comes after one of its
\* ancestors, and of two siblings the one inserted later (the greater key)
\* comes first.
FrontToBack(cs) ==
    \A i, j \in 1..Len(cs) :
        i < j =>
            /\ ~UnderOrSelf(nodes, cs[j], cs[i])
            /\ parent(cs[i]) = parent(cs[j]) => cs[i] > cs[j]

\* C29: in a hover pass the widgets hit-tested are the candidates of
\* widgets_at_point at the new location, front to back, up to and including
\* the first whose hit_test returns true; that one is told hover, alone, and
\* is the recorded hovered widget; with none, all candidates were tested,
\* nobody is told hover and nothing is recorded.
C29_HoverPassStopsAtFirstHit ==
    (ev.kind = "move" /\ ~devices[ev.d].present) =>
        LET cands == widgets_at_point(location)
            tested == CallsOf("hit_test")
            n == Len(tested)
        IN  /\ FrontToBack(cands)
            /\ n <= Len(cands)
            /\ \A i \in 1..n : tested[i].w = cands[i]
            /\ \A i \in 1..(n - 1) : tested[i].res = "false"
            /\ IF n > 0 /\ tested[n].res = "true"
               THEN /\ Len(CallsOf("hover")) = 1
                    /\ CallsOf("hover")[1].w = tested[n].w
                    /\ mwidget = tested[n].w
                    /\ hovered = tested[n].w
               ELSE /\ n = Len(cands)
                    /\ CallsOf("hover") = <<>>
                    /\ mwidget = None
                    /\ hovered = None

\* Two overlapping siblings and their parent, all passing hit_test, lie
\* under the cursor: only the sibling inserted last was hit-tested, and it
\* is hovered.
C29_Witness ==
    /\ ev.kind = "move"
    /\ widgets_at_point(location) = <<2, 1, 0>>
    /\ parent(1) = 0 /\ parent(2) = 0
    /\ hits = {0, 1, 2}
    /\ Len(CallsOf("hit_test")) = 1
    /\ hovered = 2

\* ------------------------------------------- C30: the close shortcut

\* C30: the window looks at its shortcuts, and asks close_requested, only
\* for a key release that every widget of the bubbling chain ignored, and
\* only after the last keyboard_input call; a handled key event and a key
\* press never ask close_requested, and should_close changes in no other
\* way.
C30_CloseShortcutAfterUnhandledRelease ==
    LET asked == {i \in 1..Len(calls) : calls[i].cb = "close_requested"}
    IN  /\ asked # {} => (ev.kind = "key" /\ ev.key.checked)
        /\ ev.key.checked =>
              /\ ev.kind = "key"
              /\ ~ev.key.pressed
              /\ ev.handler = None
              /\ \A i \in 1..Len(calls) :
                   calls[i].cb = "keyboard_input" => calls[i].res = IGNORED
        /\ \A i \in asked :
              /\ i = Len(calls)
              /\ \A j \in 1..(i - 1) : calls[j].cb = "keyboard_input"
              /\ i > 1
        /\ (ev.kind = "key" /\ (ev.handler # None \/ ev.key.pressed)) =>
              (asked = {} /\ ~ev.key.checked)

\* C30: among the input events, should_close is raised by a key event that
\* asked close_requested and got true, and by nothing else.
C30_CloseOnlyByShortcut ==
    [][(should_close' # should_close) =>
          /\ ev'.kind = "key" => ev'.key.checked
          /\ ev'.kind \in {"key", "close_requested"}
          /\ calls' # <<>>
          /\ calls'[Len(calls')].cb = "close_requested"
          /\ calls'[Len(calls')].res = "true"
          /\ should_close']_vars

\* A key release went to the focused child, was ignored by the child and by
\* the root, and then the behavior was asked and agreed to close.
C30_Witness ==
    /\ ev.kind = "key"
    /\ ~ev.key.pressed
    /\ ev.key.checked
    /\ Len(calls) = 3
    /\ calls[1].w = 1 /\ calls[2].w = 0
    /\ calls[3].cb = "close_requested"
    /\ should_close

\* ------------------------------------- C31: releasing one of two buttons

\* The calls cs are the drag loop of device d over the capture map devs: only
\* mouse_drag, one per button at most, each to the widget holding the button.
DragsOf(cs, devs, d) ==
    /\ \A i \in 1..Len(cs) :
         /\ cs[i].cb = "mouse_drag" /\ cs[i].d = d
         /\ cs[i].b \in Buttons
         /\ devs[d].buttons[cs[i].b] = cs[i].w
    /\ \A i, j \in 1..Len(cs) : i # j => cs[i].b # cs[j].b

\* C31: a release of a captured (device, button) takes that button's entry
\* and no other: every other button of the device keeps its widget and the
\* device keeps its entry while one is left; the only call of the release is
\* the mouse_up of the released button to its own holder.  A cursor move of
\* a device with entries is a drag loop over exactly the entries left: each
\* held button's widget is told mouse_drag (all of them, unless the loop
\* aborted on a widget without rectangle), and nobody else is told anything.
C31_ReleaseLeavesOtherButtons ==
    [][
        /\ (ev'.kind = "release" /\ Captured(ev'.d, ev'.b)) =>
             LET d == ev'.d
                 b == ev'.b
             IN  /\ \A x \in Buttons \ {b} :
                      devices'[d].buttons[x] = devices[d].buttons[x]
                 /\ devices'[d].buttons[b] = None
                 /\ devices'[d].present <=>
                      (\E x \in Buttons \ {b} : devices[d].buttons[x] # None)
                 /\ \A e \in Devices \ {d} : devices'[e] = devices[e]
                 /\ Len(calls') = 1
                 /\ calls'[1].cb = "mouse_up"
                 /\ calls'[1].w = devices[d].buttons[b]
                 /\ calls'[1].b = b
        /\ (ev'.kind = "move" /\ devices[ev'.d].present) =>
             /\ devices' = devices
             /\ DragsOf(calls', devices, ev'.d)
             /\ ~crashed' =>
                  \A x \in Buttons :
                     devices[ev'.d].buttons[x] # None =>
                        \E i \in 1..Len(calls') : calls'[i].b = x
      ]_vars

\* Button 1 was held by the child and button 2 by the root; button 1 has
\* been released: the child was told mouse_up, and the root still holds
\* button 2.
C31_Witness ==
    /\ ev.kind = "release" /\ ev.b = 1 /\ ev.held = 1
    /\ calls # <<>> /\ calls[1].cb = "mouse_up" /\ calls[1].w = 1
    /\ Captured(1, 2) /\ devices[1].buttons[2] = 0
    /\ ~crashed

\* ------------------------------------------- C32: capture is per device

\* C32: a cursor move of a device with a capture entry delivers mouse_drag
\* only, for that device, to widgets holding a button of that device; a
\* cursor move of a device without one delivers no mouse_drag and runs the
\* hover pass (the front-most candidate passing hit_test becomes the hovered
\* widget, none when there is none), whatever the other devices hold.
C32_CapturePerDevice ==
    ev.kind = "move" =>
        IF devices[ev.d].present
        THEN /\ DragsOf(calls, devices, ev.d)
             /\ ~crashed => Len(calls) =
                               Cardinality({b \in Buttons :
                                              devices[ev.d].buttons[b] # None})
        ELSE /\ CallsOf("mouse_drag") = <<>>
             /\ mwidget = FrontmostHit(location)
             /\ hovered = mwidget
             /\ widgets_at_point(location) # <<>> => CallsOf("hit_test") # <<>>

\* Device 1 holds a button on the root; device 2, which holds nothing, has
\* moved onto the child: the child was hit-tested and is hovered, and the
\* root was told nothing.
C32_Witness ==
    /\ ev.kind = "move" /\ ev.d = 2
    /\ devices[1].present /\ devices[1].buttons[1] = 0
    /\ ~devices[2].present
    /\ CallsOf("mouse_drag") = <<>>
    /\ Invoked("hit_test", 1)
    /\ hovered = 1

\* Device 1 holds a button on the child and device 2 on the root; device 2
\* has moved: the root alone was told mouse_drag.
C32_WitnessDrag ==
    /\ ev.kind = "move" /\ ev.d = 2
    /\ devices[1].present /\ devices[1].buttons[1] = 1
    /\ devices[2].present /\ devices[2].buttons[1] = 0
    /\ Len(calls) = 1 /\ calls[1].cb = "mouse_drag" /\ calls[1].w = 0

\* ------------------------------------------ C33: release without capture

\* C33: a release of a (device, button) without capture entry calls no
\* widget (no mouse_up, no hit_test) and leaves the capture map, the hovered
\* and focused registers and the recorded hovered widget as they were.
C33_ReleaseWithoutCaptureIsNoOp ==
    [][
        (ev'.kind = "release" /\ ~Captured(ev'.d, ev'.b)) =>
            /\ calls' = <<>>
            /\ devices' = devices
            /\ hovered' = hovered
            /\ focused' = focused
            /\ mwidget' = mwidget
            /\ crashed' = crashed
      ]_vars

\* Button 1 was released while only button 2 was held, with the child
\* hovered and the cursor over it: nobody was called, and button 2 is still
\* held.
C33_Witness ==
    /\ ev.kind = "release" /\ ev.b = 1 /\ ev.held = None
    /\ calls = <<>>
    /\ Captured(1, 2)
    /\ mwidget = 1 /\ hovered = 1
    /\ location # None

\* ------------------------------------- C34: no hover pass while captured

\* C34: a cursor move of a device with a capture entry calls no hit_test,
\* hover or unhover; the hovered register, the recorded hovered widget, the
\* focused register and the capture map are as before; the location is the
\* new one.
C34_CapturedMoveSkipsHover ==
    [][
        (ev'.kind = "move" /\ devices[ev'.d].present) =>
            /\ \A i \in 1..Len(calls') :
                 calls'[i].cb \notin {"hit_test", "hover", "unhover"}
            /\ hovered' = hovered
            /\ mwidget' = mwidget
            /\ focused' = focused
            /\ devices' = devices
            /\ location' \in Points
      ]_vars

\* The child is hovered and holds button 1; the cursor has moved off the
\* child onto the root, which passes hit_test there: the child was told
\* mouse_drag and is still the hovered widget.
C34_Witness ==
    /\ ev.kind = "move"
    /\ Captured(1, 1) /\ devices[1].buttons[1] = 1
    /\ hovered = 1 /\ mwidget = 1
    /\ FrontmostHit(location) = 0
    /\ calls # <<>> /\ calls[1].cb = "mouse_drag" /\ calls[1].w = 1

\* --------------------------------------------- C35: parents and depths

\* C35: every node's parent, when it has one, is a node of the tree, and its
\* depth is its parent's plus one; a node without parent has depth 0.
C35_ParentPresentDepthConsistent ==
    \A i \in 1..Len(nodes) :
        IF nodes[i].parent = None
        THEN nodes[i].depth = 0
        ELSE /\ contains_key(nodes, nodes[i].parent)
             /\ nodes[i].depth = get(nodes, nodes[i].parent).depth + 1

\* A node was just inserted by insert_after at depth 2, beside a sibling
\* that is still there, after a removal took some earlier node away.
C35_Witness ==
    /\ op[1] = "insert_after" /\ op[3] # None
    /\ contains_key(nodes, op[3])
    /\ get(nodes, op[3]).depth = 2
    /\ contains_key(nodes, op[2])
    /\ \E k \in issued : k < op[3] /\ ~contains_key(nodes, k)

\* ------------------------------------- C36: the displayed children lists

\* C36 (as claimed): every node's displayed `children` list has one entry
\* per key of children_keys(node), in the same order.
C36_ChildrenListMatchesKeys ==
    \A i \in 1..Len(nodes) :
        nodes[i].children = children_keys(nodes, nodes[i].key)

\* --------------------------------------------- C37: one guard at a time

\* The threads holding a WidgetGuard of the instance.
GuardHolders == {t \in Threads : pc[t] = "guard"}

\* C37: at most one thread holds a WidgetGuard at any time; a lock() returns
\* its guard only in a step before which no thread held one, and a thread
\* that called lock() while a guard existed is still waiting.
C37_OneGuardAtATime ==
    [][
        /\ Cardinality(GuardHolders) <= 1
        /\ Cardinality(GuardHolders') <= 1
        /\ \A t \in Threads :
             (pc[t] # "guard" /\ pc'[t] = "guard") =>
                 (pc[t] = "waiting" /\ GuardHolders = {})
      ]_vars

\* One thread holds the guard and has written through it, a second one has
\* called lock() and is waiting, after a third one panicked with the guard.
C37_Witness ==
    \E t, u, v \in Threads :
        /\ pc[t] = "guard"
        /\ pc[u] = "waiting"
        /\ pc[v] = "panicked"
        /\ mutex.locked_by = t
        /\ widget_state > 0

\* ------------------------------------------- widget.rs: WidgetRef::mounted

\* EventContext::push_child: the instance becomes a child of the context's
\* widget in the tree, and its ManagedWidget (here its id) is returned.
push_child(ns, nk, p) == insert_child_f(ns, nk, p)

\* A mutant of mounted: the child is pushed at every call.
mounted_always_pushes(ref, ns, nk, p) ==
    LET r == push_child(ns, nk, p)
    IN  [ref |-> [ref EXCEPT !.kind = "Mounted", !.id = r.ret],
         nodes |-> r.nodes, next_key |-> r.next_key, ret |-> r.ret,
         pushed |-> TRUE]

\* WidgetRef::mounted: an Unmounted reference pushes its instance and
\* becomes Mounted; the ManagedWidget the reference holds is returned.
mounted(ref, ns, nk, p) ==
    IF ref.kind = "Unmounted"
    THEN LET r == push_child(ns, nk, p)
         IN  [ref |-> [ref EXCEPT !.kind = "Mounted", !.id = r.ret],
              nodes |-> r.nodes, next_key |-> r.next_key, ret |-> r.ret,
              pushed |-> TRUE]
    ELSE [ref |-> ref, nodes |-> ns, next_key |-> nk, ret |-> ref.id,
          pushed |-> FALSE]

\* WidgetRef::new: an unmounted child.
WidgetRefNew ==
    /\ ~crashed
    /\ \E r \in Refs, w \in Instances :
         /\ wrefs[r] = NoRef
         /\ wrefs' = [wrefs EXCEPT ![r] = [NoRef EXCEPT !.kind = "Unmounted",
                                                        !.instance = w]]
    /\ UNCHANGED <<mret, lazyVars, mutex, pc, widget_state, handles, created>>
    /\ UNCHANGED <<treeVars, winVars>>

\* Clone::clone of a WidgetRef (derived): the copy is a reference of its
\* own, in the state of the original.
WidgetRefClone ==
    /\ ~crashed
    /\ \E r, c \in Refs :
         /\ wrefs[r] # NoRef
         /\ wrefs[c] = NoRef
         /\ wrefs' = [wrefs EXCEPT ![c] = [NoRef EXCEPT !.kind = wrefs[r].kind,
                                                        !.instance = wrefs[r].instance,
                                                        !.id = wrefs[r].id]]
    /\ UNCHANGED <<mret, lazyVars, mutex, pc, widget_state, handles, created>>
    /\ UNCHANGED <<treeVars, winVars>>

\* A widget of the tree calls mounted() on one of its references, with its
\* own context.
WidgetRefMounted ==
    /\ ~crashed
    /\ next_key < MaxKeys
    /\ \E r \in Refs, p \in Keys(nodes) :
         /\ wrefs[r] # NoRef
         /\ LET m == mounted(wrefs[r], nodes, next_key, p)
            IN  /\ nodes' = m.nodes
                /\ next_key' = m.next_key
                /\ op' = IF m.pushed THEN <<"insert_child", p, m.ret>> ELSE NoOp
                /\ Returned(IF m.pushed THEN m.ret ELSE None)
                /\ calls' = IF m.pushed THEN mounted_calls(m.ret) ELSE <<>>
                /\ mret' = [ref |-> r, id |-> m.ret, pushed |-> m.pushed]
                /\ wrefs' = [wrefs EXCEPT ![r] =
                               [m.ref EXCEPT !.n = IF @ < 2 THEN @ + 1 ELSE @,
                                             !.first = IF wrefs[r].n = 0
                                                       THEN m.ret ELSE @,
                                             !.pushed = @ \/ m.pushed]]
    /\ ev' = Other("WidgetRef::mounted")
    /\ UNCHANGED <<crashed, hits, layout, hovered, focused, location, mwidget,
                   devices, owner, should_close>>
    /\ UNCHANGED <<lazyVars, mutex, pc, widget_state, handles, created>>

RefNext ==
    \/ WidgetRefNew
    \/ WidgetRefClone
    \/ WidgetRefMounted
    \/ Unmount

\* A window's widgets holding WidgetRef children: references are made,
\* cloned and mounted, and widgets are removed from the tree.
RefSpec == Init /\ [][RefNext]_vars

\* --------------------------------------- C38: mounted() mounts only once

\* C38: a call of mounted() on an Unmounted reference pushes one node, turns
\* the reference into Mounted and returns the new node; a call on a Mounted
\* reference pushes nothing; and every call after the first on a reference
\* pushes nothing, leaves the reference as it is and returns what the first
\* call returned.
C38_MountedOnce ==
    [][
        ev'.kind = "WidgetRef::mounted" =>
            LET r == mret'.ref
            IN  /\ wrefs[r].kind = "Unmounted" =>
                     /\ Len(nodes') = Len(nodes) + 1
                     /\ ~contains_key(nodes, mret'.id)
                     /\ contains_key(nodes', mret'.id)
                     /\ wrefs'[r].kind = "Mounted"
                     /\ wrefs'[r].id = mret'.id
                /\ wrefs[r].kind = "Mounted" =>
                     /\ nodes' = nodes
                     /\ next_key' = next_key
                     /\ mret'.id = wrefs[r].id
                /\ wrefs[r].n > 0 =>
                     /\ nodes' = nodes
                     /\ mret'.id = wrefs[r].first
                     /\ wrefs'[r].kind = "Mounted"
                     /\ wrefs'[r].id = wrefs[r].id
      ]_vars

\* A reference that pushed its child at its first mounted() has been asked
\* again, after the child was removed from the tree: nothing was pushed and
\* the same ManagedWidget came back.
C38_Witness ==
    /\ ev.kind = "WidgetRef::mounted"
    /\ mret.ref # None
    /\ ~mret.pushed
    /\ wrefs[mret.ref].n = 2
    /\ wrefs[mret.ref].pushed
    /\ mret.id = wrefs[mret.ref].first
    /\ ~contains_key(nodes, mret.id)

\* -------------------------------------------- C39: should_close stays

\* C39: should_close never goes back to false; an event in which
\* close_requested answered true leaves it true, one in which it answered
\* false leaves it as it was; and render returns "false" (stop) in every
\* frame while it is true, "true" while it is not.
C39_ShouldCloseMonotone ==
    [][
        /\ should_close => should_close'
        /\ \A i \in 1..Len(calls') :
             calls'[i].cb = "close_requested" =>
                 /\ calls'[i].res = "true" => should_close'
                 /\ calls'[i].res = "false" => should_close' = should_close
        /\ ev'.kind = "render" =>
             /\ should_close' = should_close
             /\ ev'.ret = IF should_close THEN "false" ELSE "true"
      ]_vars

\* The flag is up and the platform's close request has just been refused
\* by close_requested: the flag is still up.
C39_Witness ==
    /\ ev.kind = "close_requested"
    /\ calls # <<>> /\ calls[1].cb = "close_requested" /\ calls[1].res = "false"
    /\ should_close

\* A frame was rendered with the flag up: render said stop.
C39_WitnessRender ==
    /\ ev.kind = "render"
    /\ should_close
    /\ ev.ret = "false"

\* ------------------------------------------------------ utils.rs: Lazy

\* Runs of the init function a run of the lazy specification makes at most
\* (a run that panics stores nothing, and a later dereference runs it again).
MaxInits == 3

\* A mutant of get_or_init: a thread that finds the cell empty runs the
\* function, whether or not another thread is running it.
may_initialize_racy(cell) == TRUE

\* OnceLock::get_or_init on an empty cell: the thread runs the function only
\* when no other thread is running it, and blocks otherwise.
may_initialize(cell) == cell.running = None

\* A thread dereferences the Lazy: Deref::deref calls get_or_init.
DerefCall ==
    \E t \in Threads :
        /\ derefs[t].pc = "idle"
        /\ derefs' = [derefs EXCEPT ![t].pc = "get_or_init"]
        /\ UNCHANGED <<once, refVars, mutex, pc, widget_state, handles, created>>
        /\ UNCHANGED <<treeVars, winVars>>

\* get_or_init finds the cell initialized: the stored value is returned.
DerefGet ==
    \E t \in Threads :
        /\ derefs[t].pc = "get_or_init"
        /\ once.value # NoValue
        /\ derefs' = [derefs EXCEPT ![t] = [pc |-> "idle", seen |-> once.value]]
        /\ UNCHANGED <<once, refVars, mutex, pc, widget_state, handles, created>>
        /\ UNCHANGED <<treeVars, winVars>>

\* get_or_init finds the cell empty and nobody initializing it: the thread
\* starts running self.init.
InitStart ==
    \E t \in Threads :
        /\ derefs[t].pc = "get_or_init"
        /\ once.value = NoValue
        /\ may_initialize(once)
        /\ once.runs < MaxInits
        /\ once' = [once EXCEPT !.running = t, !.runs = @ + 1]
        /\ derefs' = [derefs EXCEPT ![t].pc = "init"]
        /\ UNCHANGED <<refVars, mutex, pc, widget_state, handles, created>>
        /\ UNCHANGED <<treeVars, winVars>>

\* self.init returns: its result (any value: a function may return a
\* different one at every run) is stored and returned.
InitReturn ==
    \E t \in Threads, v \in 1..MaxInits :
        /\ derefs[t].pc = "init"
        /\ once' = [once EXCEPT !.value = v,
                                !.running = IF @ = t THEN None ELSE @,
                                !.stored = @ + 1]
        /\ derefs' = [derefs EXCEPT ![t] = [pc |-> "idle", seen |-> v]]
        /\ UNCHANGED <<refVars, mutex, pc, widget_state, handles, created>>
        /\ UNCHANGED <<treeVars, winVars>>

\* self.init panics: the cell stays empty and the thread is gone.
InitPanic ==
    \E t \in Threads :
        /\ derefs[t].pc = "init"
        /\ once' = [once EXCEPT !.running = IF @ = t THEN None ELSE @]
        /\ derefs' = [derefs EXCEPT ![t].pc = "panicked"]
        /\ UNCHANGED <<refVars, mutex, pc, widget_state, handles, created>>
        /\ UNCHANGED <<treeVars, winVars>>

LazyNext ==
    \/ DerefCall
    \/ DerefGet
    \/ InitStart
    \/ InitReturn
    \/ InitPanic

\* Threads dereferencing one Lazy, in any interleaving.
LazySpec == TreeInit /\ [][LazyNext]_vars

\* ------------------------------------------- C40: Lazy initializes once

\* C40: at most one result of the init function is ever stored; once
\* stored, the value never changes; and the value a dereference returned to
\* a thread is the stored one.
C40_LazyStoresOnce ==
    [][
        /\ once.stored <= 1 /\ once'.stored <= 1
        /\ once.value # NoValue => once'.value = once.value
        /\ \A t \in Threads :
             derefs'[t].seen # NoValue => derefs'[t].seen = once'.value
      ]_vars

\* The first run of the init function panicked, a second run by another
\* thread stored its result, and a third thread has read that same value.
C40_Witness ==
    \E t, u, v \in Threads :
        /\ t # u /\ u # v /\ t # v
        /\ derefs[t].pc = "panicked"
        /\ once.runs = 2 /\ once.stored = 1 /\ once.value # NoValue
        /\ derefs[u].seen = once.value
        /\ derefs[v].seen = once.value

====
